---- MODULE Spec2Model ----
(***************************************************************************)
(* Heartbeat and topology engine of the MCP Mesh agent runtime core.       *)
(*                                                                         *)
(*   heartbeat.rs  HeartbeatStateMachine (next_action, on_* transitions)   *)
(*   runtime.rs    AgentRuntime::run and the topology diff engine          *)
(*   handle.rs     AgentHandle (shutdown, update_tools, update_port)       *)
(*   registry.rs   RegistryClient outcomes (HEAD / POST / DELETE)          *)
(*                                                                         *)
(* Spec      the runtime loop together with the host calling the handle.   *)
(* SpecTopo  the diff engine driven by a sequence of heartbeat responses.  *)
(***************************************************************************)
EXTENDS Integers, Sequences, FiniteSets, TLC

VARIABLES
    pc,                   \* position of run(): "top", "wait", "retry", "done"
    sm,                   \* AgentRuntime.state_machine (HeartbeatStateMachine)
    spec,                 \* AgentRuntime.spec (http_port, tools)
    force_full_heartbeat, \* AgentRuntime.force_full_heartbeat
    topology,             \* AgentRuntime.topology (TopologyState)
    handle_state,         \* Arc<RwLock<HandleState>> shared with the handle
    shutdown_ch,          \* number of signals pending in the shutdown channel
    command_ch,           \* commands pending in the command channel
    out,                  \* registry requests and events of the last runtime step
    hist,                 \* lifetime counters of requests and events
    last_response,        \* the response processed by the last runtime step
    event_ch,             \* the event channel and the send the runtime waits in
    env                   \* what the host and the registry are doing

vars == <<pc, sm, spec, force_full_heartbeat, topology, handle_state,
          shutdown_ch, command_ch, out, hist, last_response, event_ch, env>>

(***************************************************************************)
(* Bounds of the model.                                                    *)
(***************************************************************************)
MaxThreshold == 2      \* missed_threshold is drawn from 1..MaxThreshold
MaxFailures == 2       \* cap on consecutive_failures and retry_attempt
MaxBeats == 2          \* cap on heartbeat_count
CommandBuf == 1        \* modelled capacity of the command channel
EventBuf == 2          \* modelled capacity of the event channel
MaxDeps == 2           \* longest resolved-dependency list of a response
MaxTools == 2          \* longest LLM tool list of a response
MaxAttempt == 18       \* largest retry attempt a backoff is computed for
WordBits == 16         \* width the u64 arithmetic of the backoff is carried at

ShutdownCap == 1       \* capacity of the shutdown channel

Min(a, b) == IF a < b THEN a ELSE b

(***************************************************************************)
(* heartbeat.rs: HeartbeatStateMachine                                     *)
(*                                                                         *)
(* last_heartbeat abstracts Option<Instant> by what the code asks of it:   *)
(*   "none"   None                                                         *)
(*   "fresh"  Some(t) with t.elapsed() <  interval                         *)
(*   "due"    Some(t) with t.elapsed() >= interval                         *)
(***************************************************************************)
HeartbeatStates ==
    {"Unregistered", "Registering", "Healthy", "Degraded", "Reconnecting", "ShuttingDown"}

HealthStatuses == {"Healthy", "Degraded", "Unhealthy"}

FastHeartbeatStatuses ==
    {"NoChanges", "TopologyChanged", "AgentUnknown", "RegistryError", "NetworkError"}

HeartbeatStateMachine_new(threshold) ==
    [ state                |-> "Unregistered",
      missed_threshold     |-> threshold,
      health_status        |-> "Healthy",
      last_heartbeat       |-> "none",
      consecutive_failures |-> 0,
      retry_attempt        |-> 0,
      registered           |-> FALSE,
      heartbeat_count      |-> 0 ]

should_send_heartbeat(m) == m.last_heartbeat # "fresh"

\* Durations are named, not measured: "100ms", "interval" (config.interval),
\* "remaining" (interval - elapsed, with elapsed < interval) and "zero".
time_until_next_heartbeat(m) ==
    IF m.last_heartbeat = "fresh" THEN "remaining" ELSE "zero"

\* HeartbeatConfig::default(), in milliseconds.  The runtime sets the interval
\* only, so these two are the values of every state machine.
base_backoff == 1000
max_backoff == 30000

\* u64 arithmetic.  The model carries it at WordBits bits: the operations
\* saturate at u64_MAX as the code's do, at an attempt of WordBits instead
\* of 64.
RECURSIVE pow2(_)
pow2(n) == IF n = 0 THEN 1 ELSE 2 * pow2(n - 1)

u64_MAX == pow2(WordBits) - 1

as_u64(x) == x % pow2(WordBits)

saturating_mul(a, b) ==
    IF b # 0 /\ a > u64_MAX \div b THEN u64_MAX ELSE a * b

\* A variant that wraps around instead of saturating.
RECURSIVE wrapping_pow(_, _)
wrapping_pow(b, exp) ==
    IF exp = 0 THEN 1 ELSE (b * wrapping_pow(b, exp - 1)) % pow2(WordBits)

RECURSIVE saturating_pow(_, _)
saturating_pow(b, exp) ==
    IF exp = 0 THEN 1 ELSE saturating_mul(b, saturating_pow(b, exp - 1))

calculate_backoff(m) ==
    LET base == as_u64(base_backoff)
        factor == saturating_pow(2, m.retry_attempt)
        backoff_ms == saturating_mul(base, factor)
        max_ms == as_u64(max_backoff)
    IN Min(backoff_ms, max_ms)

\* A variant that waits in the reconnecting state instead of retrying.
next_action_giving_up(m) ==
    CASE m.state = "Unregistered" -> [type |-> "SendFull"]
      [] m.state = "Registering"  -> [type |-> "Wait", duration |-> "100ms"]
      [] m.state \in {"Healthy", "Degraded"} ->
            IF should_send_heartbeat(m)
            THEN [type |-> "SendFast"]
            ELSE [type |-> "Wait", duration |-> time_until_next_heartbeat(m)]
      [] m.state = "Reconnecting" -> [type |-> "Wait", duration |-> "100ms"]
      [] m.state = "ShuttingDown" -> [type |-> "None"]

\* A variant that probes the registry with a fast heartbeat while reconnecting.
next_action_probing(m) ==
    CASE m.state = "Unregistered" -> [type |-> "SendFull"]
      [] m.state = "Registering"  -> [type |-> "Wait", duration |-> "100ms"]
      [] m.state \in {"Healthy", "Degraded"} ->
            IF should_send_heartbeat(m)
            THEN [type |-> "SendFast"]
            ELSE [type |-> "Wait", duration |-> time_until_next_heartbeat(m)]
      [] m.state = "Reconnecting" -> [type |-> "SendFast"]
      [] m.state = "ShuttingDown" -> [type |-> "None"]

\* A variant that sends a fast heartbeat without waiting for the interval.
next_action_polling(m) ==
    CASE m.state = "Unregistered" -> [type |-> "SendFull"]
      [] m.state = "Registering"  -> [type |-> "Wait", duration |-> "100ms"]
      [] m.state \in {"Healthy", "Degraded"} -> [type |-> "SendFast"]
      [] m.state = "Reconnecting" ->
            [type |-> "Retry", attempt |-> m.retry_attempt, backoff |-> calculate_backoff(m)]
      [] m.state = "ShuttingDown" -> [type |-> "None"]

next_action(m) ==
    CASE m.state = "Unregistered" -> [type |-> "SendFull"]
      [] m.state = "Registering"  -> [type |-> "Wait", duration |-> "100ms"]
      [] m.state \in {"Healthy", "Degraded"} ->
            IF should_send_heartbeat(m)
            THEN [type |-> "SendFast"]
            ELSE [type |-> "Wait", duration |-> time_until_next_heartbeat(m)]
      [] m.state = "Reconnecting" ->
            [type |-> "Retry", attempt |-> m.retry_attempt, backoff |-> calculate_backoff(m)]
      [] m.state = "ShuttingDown" -> [type |-> "None"]

\* A variant that asks for a full heartbeat on AgentUnknown only.
fast_heartbeat_action_unknown_only(status) ==
    IF status = "AgentUnknown"
    THEN [type |-> "SendFull"]
    ELSE [type |-> "Wait", duration |-> "interval"]

\* The action on_fast_heartbeat_result returns.
fast_heartbeat_action(status) ==
    IF status \in {"TopologyChanged", "AgentUnknown"}
    THEN [type |-> "SendFull"]
    ELSE [type |-> "Wait", duration |-> "interval"]

\* A variant that keeps the registration when the registry answers AgentUnknown.
on_fast_heartbeat_result_keeping_registration(m, status) ==
    CASE status = "NoChanges" ->
            [m EXCEPT !.last_heartbeat = "fresh",
                      !.consecutive_failures = 0,
                      !.heartbeat_count = @ + 1]
      [] status \in {"TopologyChanged", "AgentUnknown"} -> m
      [] status \in {"RegistryError", "NetworkError"} ->
            LET f == m.consecutive_failures + 1 IN
            IF f >= m.missed_threshold
            THEN [m EXCEPT !.consecutive_failures = f,
                           !.state = "Reconnecting",
                           !.retry_attempt = 0]
            ELSE [m EXCEPT !.consecutive_failures = f]

\* A variant that reconnects only after more than missed_threshold failures
\* and keeps the retry attempt.
on_fast_heartbeat_result_late(m, status) ==
    CASE status = "NoChanges" ->
            [m EXCEPT !.last_heartbeat = "fresh",
                      !.consecutive_failures = 0,
                      !.heartbeat_count = @ + 1]
      [] status = "TopologyChanged" -> m
      [] status = "AgentUnknown" ->
            [m EXCEPT !.registered = FALSE, !.state = "Unregistered"]
      [] status \in {"RegistryError", "NetworkError"} ->
            LET f == m.consecutive_failures + 1 IN
            IF f > m.missed_threshold
            THEN [m EXCEPT !.consecutive_failures = f, !.state = "Reconnecting"]
            ELSE [m EXCEPT !.consecutive_failures = f]

\* A variant that counts a TopologyChanged answer as a heartbeat.
on_fast_heartbeat_result_counting(m, status) ==
    CASE status \in {"NoChanges", "TopologyChanged"} ->
            [m EXCEPT !.last_heartbeat = "fresh",
                      !.consecutive_failures = 0,
                      !.heartbeat_count = @ + 1]
      [] status = "AgentUnknown" ->
            [m EXCEPT !.registered = FALSE, !.state = "Unregistered"]
      [] status \in {"RegistryError", "NetworkError"} ->
            LET f == m.consecutive_failures + 1 IN
            IF f >= m.missed_threshold
            THEN [m EXCEPT !.consecutive_failures = f,
                           !.state = "Reconnecting",
                           !.retry_attempt = 0]
            ELSE [m EXCEPT !.consecutive_failures = f]

\* The state on_fast_heartbeat_result leaves.
on_fast_heartbeat_result(m, status) ==
    CASE status = "NoChanges" ->
            [m EXCEPT !.last_heartbeat = "fresh",
                      !.consecutive_failures = 0,
                      !.heartbeat_count = @ + 1]
      [] status = "TopologyChanged" -> m
      [] status = "AgentUnknown" ->
            [m EXCEPT !.registered = FALSE, !.state = "Unregistered"]
      [] status \in {"RegistryError", "NetworkError"} ->
            LET f == m.consecutive_failures + 1 IN
            IF f >= m.missed_threshold
            THEN [m EXCEPT !.consecutive_failures = f,
                           !.state = "Reconnecting",
                           !.retry_attempt = 0]
            ELSE [m EXCEPT !.consecutive_failures = f]

\* A variant that leaves the retry attempt and reports an unhealthy agent as
\* reconnecting.
on_full_heartbeat_success_partial(m) ==
    [m EXCEPT !.last_heartbeat = "fresh",
              !.consecutive_failures = 0,
              !.registered = TRUE,
              !.heartbeat_count = @ + 1,
              !.state = CASE m.health_status = "Healthy" -> "Healthy"
                          [] m.health_status = "Degraded" -> "Degraded"
                          [] OTHER -> "Reconnecting"]

on_full_heartbeat_success(m) ==
    [m EXCEPT !.last_heartbeat = "fresh",
              !.consecutive_failures = 0,
              !.retry_attempt = 0,
              !.registered = TRUE,
              !.heartbeat_count = @ + 1,
              !.state = IF m.health_status = "Healthy" THEN "Healthy" ELSE "Degraded"]

\* A variant that counts the failure and leaves the state alone.
on_full_heartbeat_failure_counting_only(m) ==
    [m EXCEPT !.consecutive_failures = @ + 1, !.retry_attempt = @ + 1]

\* A variant that counts the failure but starts the retry attempts over.
on_full_heartbeat_failure_restarting(m) ==
    LET f == m.consecutive_failures + 1 IN
    [m EXCEPT !.consecutive_failures = f,
              !.retry_attempt = 0,
              !.state = IF f >= m.missed_threshold THEN "Reconnecting" ELSE @]

on_full_heartbeat_failure(m) ==
    LET f == m.consecutive_failures + 1 IN
    [m EXCEPT !.consecutive_failures = f,
              !.retry_attempt = @ + 1,
              !.state = IF f >= m.missed_threshold THEN "Reconnecting" ELSE @]

shutdown(m) == [m EXCEPT !.state = "ShuttingDown"]

set_health_status(m, status) == [m EXCEPT !.health_status = status]

is_shutting_down(m) == m.state = "ShuttingDown"

(***************************************************************************)
(* Values the registry can put into a heartbeat response.                  *)
(***************************************************************************)
Funcs == {"f", "h"}    \* requesting functions / LLM function ids

ResolvedDependency(agent, endpoint, fname, cap, status) ==
    [ agent_id |-> agent, endpoint |-> endpoint, function_name |-> fname,
      capability |-> cap, status |-> status ]

\* One base provider and the providers that differ from it in one field.
ProviderEntries ==
    { ResolvedDependency("a1", "e1", "g1", "c1", "available"),
      ResolvedDependency("a1", "e2", "g1", "c1", "healthy"),
      ResolvedDependency("a1", "e1", "g2", "c1", "available"),
      ResolvedDependency("a2", "e1", "g1", "c1", "healthy"),
      ResolvedDependency("a1", "e1", "g1", "c2", "available"),
      ResolvedDependency("a1", "e1", "g1", "c1", "degraded") }

\* Option<T> is a sequence of length at most one.
None == <<>>
Some(v) == <<v>>

\* registry::LlmToolInfo as deserialized (input_schema is a JSON value).
RegistryTool(fname, endpoint, schema) ==
    [ function_name |-> fname, capability |-> "llm", description |-> "d",
      endpoint |-> endpoint, agent_id |-> "a1", input_schema |-> schema ]

RegistryTools ==
    { RegistryTool("t1", "e1", None),
      RegistryTool("t1", "e2", Some("obj")) }

ResolvedLlmProvider(agent, endpoint, fname) ==
    [ agent_id |-> agent, endpoint |-> endpoint, function_name |-> fname,
      model |-> None, vendor |-> Some("v") ]

LlmProviders ==
    { ResolvedLlmProvider("a1", "e1", "p1"),
      ResolvedLlmProvider("a1", "e2", "p1") }

\* serde_json::to_string of the JSON values the model uses.
json_to_string(v) == IF v = "obj" THEN "{}" ELSE "null"

(***************************************************************************)
(* Helpers on finite maps (HashMap) and sequences.                         *)
(***************************************************************************)
EmptyMap == [k \in {} |-> 0]

MapInsert(m, k, v) == [x \in DOMAIN m \cup {k} |-> IF x = k THEN v ELSE m[x]]

MapRemoveAll(m, ks) == [x \in DOMAIN m \ ks |-> m[x]]

Range(q) == {q[i] : i \in DOMAIN q}

\* The orders in which a HashMap may iterate over the key set S.
IterationOrders(S) ==
    {q \in [1..Cardinality(S) -> S] : Range(q) = S}

(***************************************************************************)
(* events.rs: MeshEvent constructors                                       *)
(***************************************************************************)
agent_registered(agent_id) ==
    [ kind |-> "event", type |-> "agent_registered", agent_id |-> agent_id ]

registration_failed ==
    [ kind |-> "event", type |-> "registration_failed" ]

shutdown_event ==
    [ kind |-> "event", type |-> "shutdown" ]

dependency_unavailable(cap, func, idx) ==
    [ kind |-> "event", type |-> "dependency_unavailable", capability |-> cap,
      requesting_function |-> func, dep_index |-> idx ]

dependency_available(v, func, idx) ==
    [ kind |-> "event", type |-> "dependency_available", capability |-> v.capability,
      endpoint |-> v.endpoint, function_name |-> v.function_name,
      agent_id |-> v.agent_id, requesting_function |-> func, dep_index |-> idx ]

dependency_changed(v, func, idx) ==
    [ kind |-> "event", type |-> "dependency_changed", capability |-> v.capability,
      endpoint |-> v.endpoint, function_name |-> v.function_name,
      agent_id |-> v.agent_id, requesting_function |-> func, dep_index |-> idx ]

llm_tools_updated(fid, tools) ==
    [ kind |-> "event", type |-> "llm_tools_updated", function_id |-> fid, tools |-> tools ]

llm_provider_available(info) ==
    [ kind |-> "event", type |-> "llm_provider_available", provider_info |-> info ]

(***************************************************************************)
(* runtime.rs: process_dependency_changes                                  *)
(***************************************************************************)
\* A variant keyed by the requesting function alone.
DepKey_by_function(func, idx) == <<func, 0>>

DepKey(func, idx) == <<func, idx>>

DepValue(p) ==
    [ capability |-> p.capability, endpoint |-> p.endpoint,
      function_name |-> p.function_name, agent_id |-> p.agent_id ]

\* A variant that skips only the providers reported unavailable.
provider_is_usable_unless_unavailable(p) == p.status # "unavailable"

\* "Only process available/healthy providers"
provider_is_usable(p) == p.status = "available" \/ p.status = "healthy"

\* The map new_deps built from the response; dep_index is the 0-based position.
new_deps(resolved) ==
    LET keys == UNION { { DepKey(f, i - 1) : i \in 1..Len(resolved[f]) } :
                        f \in DOMAIN resolved } IN
    [ k \in { k \in keys : provider_is_usable(resolved[k[1]][k[2] + 1]) }
        |-> DepValue(resolved[k[1]][k[2] + 1]) ]

removed_keys(old, new) == DOMAIN old \ DOMAIN new

\* A variant that compares the endpoint only.
dep_has_changed_endpoint_only(old, new, k) ==
    IF k \in DOMAIN old THEN old[k].endpoint # new[k].endpoint ELSE TRUE

dep_has_changed(old, new, k) ==
    IF k \in DOMAIN old
    THEN old[k].endpoint # new[k].endpoint \/ old[k].function_name # new[k].function_name
    ELSE TRUE

added_or_changed_keys(old, new) == { k \in DOMAIN new : dep_has_changed(old, new, k) }

RECURSIVE insert_capabilities(_, _, _)
insert_capabilities(view, order, new) ==
    IF order = <<>> THEN view
    ELSE insert_capabilities(
            MapInsert(view, new[Head(order)].capability, new[Head(order)].endpoint),
            Tail(order), new)

\* The batch update of HandleState.dependencies (capability -> endpoint).
update_shared_dependencies(view, old, new, removed, order) ==
    insert_capabilities(MapRemoveAll(view, { old[k].capability : k \in removed }), order, new)

RECURSIVE unavailable_events(_, _)
unavailable_events(old, order) ==
    IF order = <<>> THEN <<>>
    ELSE <<dependency_unavailable(old[Head(order)].capability, Head(order)[1], Head(order)[2])>>
         \o unavailable_events(old, Tail(order))

RECURSIVE available_events(_, _, _)
available_events(old, new, order) ==
    IF order = <<>> THEN <<>>
    ELSE LET k == Head(order) IN
         << IF k \notin DOMAIN old
            THEN dependency_available(new[k], k[1], k[2])
            ELSE dependency_changed(new[k], k[1], k[2]) >>
         \o available_events(old, new, Tail(order))

\* s is the runtime's state; rem and chg are the iteration orders of the
\* removed and of the added-or-changed keys.
\* "self.shared_state.write().await": the runtime stores hs as the shared
\* handle state. hist.event_before_write observes whether the step had
\* emitted an event before the write.
write_shared_state(s, hs) ==
    [ s EXCEPT !.hs = hs,
               !.hist.event_before_write =
                   @ \/ \E i \in DOMAIN s.out : s.out[i].kind = "event" ]

process_dependency_changes(s, resolved, rem, chg) ==
    LET old == s.topology.dependencies
        new == new_deps(resolved)
        removed == Range(rem)
        changed == Range(chg)
        s1 == IF removed # {} \/ changed # {}
              THEN write_shared_state(s,
                       [ s.hs EXCEPT !.dependencies =
                           update_shared_dependencies(@, old, new, removed, chg) ])
              ELSE s
    IN [ s1 EXCEPT
           !.out = @ \o unavailable_events(old, rem) \o available_events(old, new, chg),
           !.topology.dependencies =
               [ k \in (DOMAIN old \ removed) \cup changed |->
                   IF k \in changed THEN new[k] ELSE old[k] ] ]

(***************************************************************************)
(* runtime.rs: process_llm_tools_changes, process_llm_providers_changes    *)
(***************************************************************************)
\* events::LlmToolInfo built from registry::LlmToolInfo.
RECURSIVE tool_infos(_)
tool_infos(tools) ==
    IF tools = <<>> THEN <<>>
    ELSE LET t == Head(tools) IN
         << [ t EXCEPT !.input_schema =
                 IF @ = None THEN None ELSE Some(json_to_string(@[1])) ] >>
         \o tool_infos(Tail(tools))

\* A variant that compares the lengths of the two lists only.
tools_are_equal_in_length(old, new) == Len(old) = Len(new)

tools_are_equal(old, new) ==
    /\ Len(old) = Len(new)
    /\ \A i \in 1..Len(old) :
          /\ old[i].function_name = new[i].function_name
          /\ old[i].capability = new[i].capability
          /\ old[i].description = new[i].description
          /\ old[i].endpoint = new[i].endpoint
          /\ old[i].agent_id = new[i].agent_id
          /\ old[i].input_schema = new[i].input_schema

\* A variant that reports the tools of every response as changed.
llm_tools_changed_always(old_map, fid, infos) == TRUE

llm_tools_changed(old_map, fid, infos) ==
    IF fid \in DOMAIN old_map THEN ~tools_are_equal(old_map[fid], infos) ELSE TRUE

RECURSIVE process_llm_tools_changes(_, _, _)
process_llm_tools_changes(s, llm_tools, order) ==
    IF order = <<>> THEN s
    ELSE LET fid == Head(order)
             infos == tool_infos(llm_tools[fid])
             s1 == IF llm_tools_changed(s.topology.llm_tools, fid, infos)
                   THEN [ s EXCEPT !.out = Append(@, llm_tools_updated(fid, infos)),
                                   !.topology.llm_tools = MapInsert(@, fid, infos) ]
                   ELSE s
         IN process_llm_tools_changes(s1, llm_tools, Tail(order))

TrackedProvider(fid, p) ==
    [ function_id |-> fid, agent_id |-> p.agent_id, endpoint |-> p.endpoint,
      function_name |-> p.function_name, model |-> p.model ]

LlmProviderInfo(fid, p) ==
    [ function_id |-> fid, agent_id |-> p.agent_id, endpoint |-> p.endpoint,
      function_name |-> p.function_name, model |-> p.model, vendor |-> p.vendor ]

\* A variant that compares every field of the tracked record.
llm_provider_changed_in_any_field(old_map, fid, tracked) ==
    IF fid \in DOMAIN old_map THEN old_map[fid] # tracked ELSE TRUE

llm_provider_changed(old_map, fid, tracked) ==
    IF fid \in DOMAIN old_map
    THEN \/ old_map[fid].endpoint # tracked.endpoint
         \/ old_map[fid].function_name # tracked.function_name
    ELSE TRUE

RECURSIVE process_llm_providers_changes(_, _, _)
process_llm_providers_changes(s, llm_providers, order) ==
    IF order = <<>> THEN s
    ELSE LET fid == Head(order)
             tracked == TrackedProvider(fid, llm_providers[fid])
             s1 == IF llm_provider_changed(s.topology.llm_providers, fid, tracked)
                   THEN [ s EXCEPT
                            !.topology.llm_providers = MapInsert(@, fid, tracked),
                            !.out = Append(@, llm_provider_available(
                                                 LlmProviderInfo(fid, llm_providers[fid]))) ]
                   ELSE s
         IN process_llm_providers_changes(s1, llm_providers, Tail(order))

(***************************************************************************)
(* runtime.rs: process_heartbeat_response                                  *)
(***************************************************************************)
\* The HashMap iteration orders one processing of response r can take.
ResponseOrders(s, r) ==
    LET old == s.topology.dependencies
        new == new_deps(r.dependencies_resolved)
    IN [ rem   : IterationOrders(removed_keys(old, new)),
         chg   : IterationOrders(added_or_changed_keys(old, new)),
         tools : IterationOrders(DOMAIN r.llm_tools),
         provs : IterationOrders(DOMAIN r.llm_providers) ]

\* A variant that handles the LLM providers before the LLM tools.
process_heartbeat_response_providers_first(s, r, ord) ==
    LET s1 == process_dependency_changes(s, r.dependencies_resolved, ord.rem, ord.chg)
        s2 == process_llm_providers_changes(s1, r.llm_providers, ord.provs)
    IN process_llm_tools_changes(s2, r.llm_tools, ord.tools)

process_heartbeat_response(s, r, ord) ==
    LET s1 == process_dependency_changes(s, r.dependencies_resolved, ord.rem, ord.chg)
        s2 == process_llm_tools_changes(s1, r.llm_tools, ord.tools)
    IN process_llm_providers_changes(s2, r.llm_providers, ord.provs)

(***************************************************************************)
(* spec.rs / registry.rs: the spec and its projection into a request       *)
(***************************************************************************)
ToolSpec(fname, cap, deps) ==
    [ function_name |-> fname, capability |-> cap, version |-> "1.0.0",
      tags |-> <<>>, description |-> "", dependencies |-> deps ]

DependencySpec(cap) == [ capability |-> cap, tags |-> <<>>, version |-> None ]

ToolLists ==
    { <<>>,
      << ToolSpec("greet", "greeting", << DependencySpec("c1") >>) >> }

Ports == {8080}

AgentSpec_new == [ name |-> "a", http_port |-> 0, tools |-> <<>> ]

agent_id(sp) == sp.name

as_api_str(health) ==
    CASE health = "Healthy" -> "healthy"
      [] health = "Degraded" -> "degraded"
      [] health = "Unhealthy" -> "unhealthy"

RECURSIVE tool_registrations(_)
tool_registrations(tools) ==
    IF tools = <<>> THEN <<>>
    ELSE LET t == Head(tools) IN
         << [ t EXCEPT !.description = IF @ = "" THEN None ELSE Some(@) ] >>
         \o tool_registrations(Tail(tools))

HeartbeatRequest_from_spec(sp, health) ==
    [ kind |-> "request", method |-> "POST", agent_id |-> agent_id(sp),
      http_port |-> sp.http_port, status |-> as_api_str(health),
      tools |-> tool_registrations(sp.tools) ]

\* RegistryClient::fast_heartbeat_check: the request and the status it returns.
fast_heartbeat_check(sp, status) ==
    [ kind |-> "request", method |-> "HEAD", agent_id |-> agent_id(sp),
      result |-> status ]

DeleteOutcomes == {"2xx", "404", "500", "network"}

\* RegistryClient::unregister_agent: the request, and whether it returns Ok.
unregister_agent(sp, outcome) ==
    [ kind |-> "request", method |-> "DELETE", agent_id |-> agent_id(sp),
      outcome |-> outcome, ok |-> outcome \in {"2xx", "404"} ]

HeartbeatResponse(resolved, tools, provs) ==
    [ agent_id |-> "a", dependencies_resolved |-> resolved,
      llm_tools |-> tools, llm_providers |-> provs ]

(***************************************************************************)
(* runtime.rs: commands                                                    *)
(***************************************************************************)
UpdateTools(tools) == [ cmd |-> "UpdateTools", tools |-> tools, port |-> 0 ]
UpdatePort(port) == [ cmd |-> "UpdatePort", tools |-> <<>>, port |-> port ]

\* A variant without the smart diff: every update counts as a change.
tools_are_different_always(cur, new_tools) == TRUE

tools_are_different(cur, new_tools) ==
    \/ Len(cur) # Len(new_tools)
    \/ \E i \in 1..Len(cur) :
          \/ cur[i].function_name # new_tools[i].function_name
          \/ cur[i].capability # new_tools[i].capability
          \/ cur[i].version # new_tools[i].version
          \/ Len(cur[i].dependencies) # Len(new_tools[i].dependencies)
          \/ \E j \in 1..Min(Len(cur[i].dependencies), Len(new_tools[i].dependencies)) :
                \/ cur[i].dependencies[j].capability # new_tools[i].dependencies[j].capability
                \/ cur[i].dependencies[j].tags # new_tools[i].dependencies[j].tags
                \/ cur[i].dependencies[j].version # new_tools[i].dependencies[j].version

handle_update_tools(s, new_tools) ==
    IF tools_are_different(s.spec.tools, new_tools)
    THEN [ s EXCEPT !.spec.tools = new_tools, !.force = TRUE ]
    ELSE s

\* A variant whose UpdatePort stores the port and forces no heartbeat.
handle_command_without_force(s, c) ==
    IF c.cmd = "UpdateTools"
    THEN handle_update_tools(s, c.tools)
    ELSE [ s EXCEPT !.spec.http_port = c.port ]

handle_command(s, c) ==
    IF c.cmd = "UpdateTools"
    THEN handle_update_tools(s, c.tools)
    ELSE IF s.spec.http_port # c.port
         THEN [ s EXCEPT !.spec.http_port = c.port, !.force = TRUE ]
         ELSE s

RECURSIVE process_pending_commands(_, _)
process_pending_commands(s, q) ==
    IF q = <<>> THEN s
    ELSE process_pending_commands(handle_command(s, Head(q)), Tail(q))

(***************************************************************************)
(* runtime.rs: heartbeats                                                  *)
(***************************************************************************)
\* A variant that takes every counted heartbeat for the first one.
is_first_registration_any(m) == m.heartbeat_count >= 1

\* "if self.state_machine.heartbeat_count() == 1"
is_first_registration(m) == m.heartbeat_count = 1

\* o is the outcome of the POST: [ok, response]; ord the iteration orders.
\* A variant that stores the agent id in the shared state after the response
\* has been processed.
send_full_heartbeat_storing_id_last(s, o, ord) ==
    LET s0 == [ s EXCEPT !.out = Append(@, HeartbeatRequest_from_spec(s.spec, s.sm.health_status)) ]
    IN IF o.ok
       THEN LET sa == [ s0 EXCEPT !.sm = on_full_heartbeat_success(@),
                                  !.hist.full_ok = TRUE ]
                s1 == process_heartbeat_response(sa, o.response, ord)
                s2 == write_shared_state(s1,
                          [ s1.hs EXCEPT !.agent_id = Some(o.response.agent_id) ])
            IN IF is_first_registration(s2.sm)
               THEN [ s2 EXCEPT !.out = Append(@, agent_registered(agent_id(s2.spec))),
                                !.hist.agent_registered = @ + 1 ]
               ELSE s2
       ELSE [ s0 EXCEPT !.sm = on_full_heartbeat_failure(@),
                        !.out = Append(@, registration_failed) ]

send_full_heartbeat(s, o, ord) ==
    LET s0 == [ s EXCEPT !.out = Append(@, HeartbeatRequest_from_spec(s.spec, s.sm.health_status)) ]
    IN IF o.ok
       THEN LET sa == [ s0 EXCEPT !.sm = on_full_heartbeat_success(@),
                                  !.hist.full_ok = TRUE ]
                s1 == write_shared_state(sa,
                          [ sa.hs EXCEPT !.agent_id = Some(o.response.agent_id) ])
                s2 == process_heartbeat_response(s1, o.response, ord)
            IN IF is_first_registration(s2.sm)
               THEN [ s2 EXCEPT !.out = Append(@, agent_registered(agent_id(s2.spec))),
                                !.hist.agent_registered = @ + 1 ]
               ELSE s2
       ELSE [ s0 EXCEPT !.sm = on_full_heartbeat_failure(@),
                        !.out = Append(@, registration_failed) ]

send_fast_heartbeat(s, status, o, ord) ==
    LET s1 == [ s EXCEPT !.out = Append(@, fast_heartbeat_check(s.spec, status)),
                         !.sm = on_fast_heartbeat_result(@, status) ]
    IN IF fast_heartbeat_action(status).type = "SendFull"
       THEN send_full_heartbeat(s1, o, ord)
       ELSE s1

\* A variant that tries the DELETE again when it fails.
unregister_from_registry_retrying(s, outcome) ==
    IF unregister_agent(s.spec, outcome).ok
    THEN [ s EXCEPT !.out = Append(@, unregister_agent(s.spec, outcome)),
                    !.hist.deletes = @ + 1 ]
    ELSE [ s EXCEPT !.out = @ \o << unregister_agent(s.spec, outcome),
                                    unregister_agent(s.spec, outcome) >>,
                    !.hist.deletes = @ + 2 ]

\* unregister_from_registry, then the shutdown event that follows the loop.
unregister_from_registry(s, outcome) ==
    [ s EXCEPT !.out = Append(@, unregister_agent(s.spec, outcome)),
               !.hist.deletes = @ + 1 ]

emit_shutdown(s) ==
    [ s EXCEPT !.out = Append(@, shutdown_event),
               !.hist.shutdown_events = @ + 1 ]

(***************************************************************************)
(* Responses and outcomes the registry is drawn from.                      *)
(***************************************************************************)
EmptyResolved == [f \in Funcs |-> <<>>]

SeqsUpTo(S, n) == UNION { [1..k -> S] : k \in 0..n }

\* The dependencies_resolved maps in which function "f" has up to n providers
\* drawn from S.
ResolvedMaps(S, n) ==
    { "f" :> q @@ "h" :> <<>> : q \in SeqsUpTo(S, n) }

\* The providers that differ in endpoint, function_name or status.
CoreEntries ==
    { p \in ProviderEntries : p.agent_id = "a1" /\ p.capability = "c1" }

Provider1 == ResolvedDependency("a1", "e1", "g1", "c1", "available")
Provider2 == ResolvedDependency("a1", "e2", "g1", "c1", "healthy")
Tool1 == RegistryTool("t1", "e1", None)
Tool2 == RegistryTool("t1", "e2", Some("obj"))
LlmProvider1 == ResolvedLlmProvider("a1", "e1", "p1")
LlmProvider2 == ResolvedLlmProvider("a1", "e2", "p1")

\* The llm_tools and llm_providers parts of a response.
LlmParts ==
    { [ tools |-> EmptyMap, provs |-> EmptyMap ],
      [ tools |-> "f" :> <<Tool1>>, provs |-> "f" :> LlmProvider1 ],
      [ tools |-> "f" :> <<Tool1, Tool2>>, provs |-> "f" :> LlmProvider2 ] }

\* The responses the runtime loop is run against.
LoopResponses ==
    { HeartbeatResponse("f" :> <<Provider1>> @@ "h" :> <<>>,
                        "f" :> <<Tool1>>, "f" :> LlmProvider1),
      HeartbeatResponse("f" :> <<>> @@ "h" :> <<Provider2>>,
                        "f" :> <<Tool1, Tool2>>, "f" :> LlmProvider2) }

\* The responses the diff engine is run against.
TopoResponses ==
    { HeartbeatResponse(d, EmptyMap, EmptyMap) : d \in ResolvedMaps(CoreEntries, MaxDeps) }
    \cup { HeartbeatResponse(d, l.tools, l.provs) :
             d \in ResolvedMaps(ProviderEntries, 1), l \in LlmParts }

NoResponse == HeartbeatResponse(EmptyResolved, EmptyMap, EmptyMap)

NoOrders == [ rem |-> <<>>, chg |-> <<>>, tools |-> <<>>, provs |-> <<>> ]

Failure == [ ok |-> FALSE, response |-> NoResponse ]

\* While the registry is down (env.registry_up is FALSE) a request may
\* succeed or fail, within MaxBeats successes and MaxFailures failures; once
\* it has recovered every request succeeds.
can_succeed(m) == env.registry_up \/ m.heartbeat_count < MaxBeats

can_fail(m) ==
    /\ ~env.registry_up
    /\ m.consecutive_failures < MaxFailures /\ m.retry_attempt < MaxFailures

\* Outcomes of a POST sent in state m of the state machine.
FullOutcomes(m) ==
    (IF can_succeed(m) THEN { [ ok |-> TRUE, response |-> r ] : r \in LoopResponses } ELSE {})
    \cup (IF can_fail(m) THEN {Failure} ELSE {})

\* Outcomes of a HEAD sent in state m.
FastOutcomes(m) ==
    { st \in FastHeartbeatStatuses :
        /\ st = "NoChanges" => can_succeed(m)
        /\ st \in {"RegistryError", "NetworkError"} => can_fail(m) }

OrdersFor(s, o) == IF o.ok THEN ResponseOrders(s, o.response) ELSE {NoOrders}

(***************************************************************************)
(* The runtime's state as one record, and its write-back.                  *)
(***************************************************************************)
Bundle ==
    [ sm |-> sm, spec |-> spec, force |-> force_full_heartbeat, topology |-> topology,
      hs |-> handle_state, out |-> <<>>, hist |-> hist, last |-> last_response ]

\* heartbeat_count is a u64 of which the code reads only whether it is 1:
\* the model counts it up to MaxBeats.
Commit(s) ==
    /\ sm' = [ s.sm EXCEPT !.heartbeat_count = Min(@, MaxBeats) ]
    /\ spec' = s.spec
    /\ force_full_heartbeat' = s.force
    /\ topology' = s.topology
    /\ handle_state' = s.hs
    /\ out' = s.out
    /\ hist' = s.hist
    /\ last_response' = s.last

InitWith(threshold) ==
    /\ pc = "top"
    /\ sm = HeartbeatStateMachine_new(threshold)
    /\ spec = AgentSpec_new
    /\ force_full_heartbeat = FALSE
    /\ topology = [ dependencies |-> EmptyMap, llm_tools |-> EmptyMap,
                    llm_providers |-> EmptyMap ]
    /\ handle_state = [ dependencies |-> EmptyMap, health_status |-> "Healthy",
                        shutdown_requested |-> FALSE, agent_id |-> None ]
    /\ shutdown_ch = 0
    /\ command_ch = <<>>
    /\ out = <<>>
    /\ hist = [ agent_registered |-> 0, shutdown_events |-> 0, deletes |-> 0,
                full_ok |-> FALSE, sig_consumed |-> FALSE, shutdown_called |-> FALSE,
                repeated |-> FALSE, before |-> None,
                event_before_write |-> FALSE ]
    /\ last_response = None
    /\ event_ch = [ queue |-> <<>>, unsent |-> <<>>, resume |-> "top",
                    emitted |-> 0, delivered |-> 0, returned |-> None ]
    /\ env = [ draining |-> TRUE, async_send |-> None, handle_dropped |-> FALSE,
               registry_up |-> FALSE, config |-> None ]

Init == \E threshold \in 1..MaxThreshold : InitWith(threshold)

(***************************************************************************)
(* runtime.rs: AgentRuntime::run                                           *)
(***************************************************************************)
\* A variant that announces the shutdown as soon as the signal is consumed.
signal_received_announcing(s) ==
    [ s EXCEPT !.sm = shutdown(@), !.hist.sig_consumed = TRUE,
               !.out = Append(@, shutdown_event),
               !.hist.shutdown_events = @ + 1 ]

\* How many events the sequence q of requests and events holds.
CountEvents(q) == Cardinality({ i \in DOMAIN q : q[i].kind = "event" })

\* The events of q in order, each as the channel carries it: its type and
\* its place in the order of emission, counted on from the first-th event.
Emitted(q, first) ==
    LET events == SelectSeq(q, LAMBDA e : e.kind = "event")
    IN [ i \in DOMAIN events |-> [ type |-> events[i].type, id |-> first + i - 1 ] ]

\* The step has changed the runtime's state and sends its events, in order,
\* with event_tx.send(..).await, then goes on at position next. While the
\* host drains the channel every event is taken as it arrives. Otherwise
\* the events queue up, and when the channel is full the runtime waits in
\* the send (position "send") with the rest of its events unsent.
Goto(next) ==
    LET n == CountEvents(out')
        room == EventBuf - Len(event_ch.queue)
        sent == Emitted(out', event_ch.emitted + 1)
    IN /\ env' = env
       /\ IF env.draining
          THEN pc' = next /\ event_ch' = event_ch
          ELSE IF n <= room
               THEN /\ pc' = next
                    /\ event_ch' = [ event_ch EXCEPT !.queue = @ \o sent,
                                                     !.emitted = @ + n ]
               ELSE /\ pc' = "send"
                    /\ event_ch' = [ event_ch EXCEPT
                                       !.queue = @ \o SubSeq(sent, 1, room),
                                       !.unsent = SubSeq(sent, room + 1, n),
                                       !.resume = next,
                                       !.emitted = @ + n ]

signal_received(s) == [ s EXCEPT !.sm = shutdown(@), !.hist.sig_consumed = TRUE ]

\* Top of the loop: try_recv on the shutdown channel, process_pending_commands.
Polled ==
    process_pending_commands(
        IF shutdown_ch > 0 THEN signal_received(Bundle) ELSE Bundle, command_ch)

PollChannels == shutdown_ch' = 0 /\ command_ch' = <<>>

Dispatch(P, type) ==
    /\ ~is_shutting_down(P.sm)
    /\ ~P.force
    /\ next_action(P.sm).type = type

\* "if is_shutting_down { unregister; break }" and the None arm, then the
\* shutdown event after the loop.
ExitLoop ==
    /\ pc = "top"
    /\ LET P == Polled IN
       IF is_shutting_down(P.sm)
       THEN \E o \in DeleteOutcomes : Commit(emit_shutdown(unregister_from_registry(P, o)))
       ELSE /\ Dispatch(P, "None")
            /\ Commit(emit_shutdown(P))
    /\ Goto("done")
    /\ PollChannels

ForcedFullHeartbeat ==
    /\ pc = "top"
    /\ LET P == Polled IN
       /\ ~is_shutting_down(P.sm)
       /\ P.force
       /\ \E o \in FullOutcomes(P.sm) : \E ord \in OrdersFor(P, o) :
             Commit(send_full_heartbeat([P EXCEPT !.force = FALSE], o, ord))
    /\ Goto("top")
    /\ PollChannels

SendFull ==
    /\ pc = "top"
    /\ LET P == Polled IN
       /\ Dispatch(P, "SendFull")
       /\ \E o \in FullOutcomes(P.sm) : \E ord \in OrdersFor(P, o) :
             Commit(send_full_heartbeat(P, o, ord))
    /\ Goto("top")
    /\ PollChannels

SendFast ==
    /\ pc = "top"
    /\ LET P == Polled IN
       /\ Dispatch(P, "SendFast")
       /\ \E st \in FastOutcomes(P.sm) :
             IF fast_heartbeat_action(st).type = "SendFull"
             THEN \E o \in FullOutcomes(on_fast_heartbeat_result(P.sm, st)) :
                  \E ord \in OrdersFor(P, o) :
                     Commit(send_fast_heartbeat(P, st, o, ord))
             ELSE Commit(send_fast_heartbeat(P, st, Failure, NoOrders))
    /\ Goto("top")
    /\ PollChannels

StartWait ==
    /\ pc = "top"
    /\ LET P == Polled IN Dispatch(P, "Wait") /\ Commit(P)
    /\ Goto("wait")
    /\ PollChannels

StartRetry ==
    /\ pc = "top"
    /\ LET P == Polled IN Dispatch(P, "Retry") /\ Commit(P)
    /\ Goto("retry")
    /\ PollChannels

\* sleep(duration) of a Wait ran to its end: the interval has elapsed.
sleep_elapsed(m) ==
    IF m.state \in {"Healthy", "Degraded"} /\ m.last_heartbeat = "fresh"
    THEN [ m EXCEPT !.last_heartbeat = "due" ]
    ELSE m

\* The three branches of tokio::select! in the Wait and Retry arms.
WakeOnSleep(s) == [ s EXCEPT !.sm = sleep_elapsed(@) ]
WakeOnShutdown(s) == signal_received(s)
WakeOnCommand(s, c) == handle_command(s, c)

WaitSleep ==
    /\ pc = "wait"
    /\ Commit(WakeOnSleep(Bundle))
    /\ Goto("top")
    /\ UNCHANGED <<shutdown_ch, command_ch>>

WaitShutdown ==
    /\ pc = "wait"
    /\ shutdown_ch > 0
    /\ Commit(WakeOnShutdown(Bundle))
    /\ shutdown_ch' = shutdown_ch - 1
    /\ Goto("top")
    /\ UNCHANGED command_ch

WaitCommand ==
    /\ pc = "wait"
    /\ command_ch # <<>>
    /\ Commit(WakeOnCommand(Bundle, Head(command_ch)))
    /\ command_ch' = Tail(command_ch)
    /\ Goto("top")
    /\ UNCHANGED shutdown_ch

\* "After backoff, try full registration"
AfterBackoff(s) ==
    \E o \in FullOutcomes(s.sm) : \E ord \in OrdersFor(s, o) :
        Commit(send_full_heartbeat(s, o, ord))

RetrySleep ==
    /\ pc = "retry"
    /\ AfterBackoff(WakeOnSleep(Bundle))
    /\ Goto("top")
    /\ UNCHANGED <<shutdown_ch, command_ch>>

RetryShutdown ==
    /\ pc = "retry"
    /\ shutdown_ch > 0
    /\ AfterBackoff(WakeOnShutdown(Bundle))
    /\ shutdown_ch' = shutdown_ch - 1
    /\ Goto("top")
    /\ UNCHANGED command_ch

RetryCommand ==
    /\ pc = "retry"
    /\ command_ch # <<>>
    /\ AfterBackoff(WakeOnCommand(Bundle, Head(command_ch)))
    /\ command_ch' = Tail(command_ch)
    /\ Goto("top")
    /\ UNCHANGED shutdown_ch

\* Time passes while the runtime is suspended: the interval elapses.
TimePasses ==
    /\ pc # "done"
    /\ sm.last_heartbeat = "fresh"
    /\ sm' = [ sm EXCEPT !.last_heartbeat = "due" ]
    /\ UNCHANGED <<pc, spec, force_full_heartbeat, topology, handle_state,
                   shutdown_ch, command_ch, out, hist, last_response, event_ch, env>>

(***************************************************************************)
(* handle.rs: the host side                                                *)
(***************************************************************************)
\* mpsc try_send: Ok when the receiver lives and the channel has room.
try_send_ok(len, cap) == pc # "done" /\ len < cap

\* A variant whose send queues the signal whatever the channel holds.
shutdown_internal_queueing(hs, ch) ==
    [ hs |-> [ hs EXCEPT !.shutdown_requested = TRUE ], ch |-> ch + 1 ]

\* shutdown_internal / shutdown_async: set the flag, then try_send(()) whose
\* result is ignored.
shutdown_internal(hs, ch) ==
    [ hs |-> [ hs EXCEPT !.shutdown_requested = TRUE ],
      ch |-> IF try_send_ok(ch, ShutdownCap) THEN ch + 1 ELSE ch ]

HostShutdown ==
    /\ ~env.handle_dropped
    /\ handle_state' = shutdown_internal(handle_state, shutdown_ch).hs
    /\ shutdown_ch' = shutdown_internal(handle_state, shutdown_ch).ch
    /\ hist' = [ hist EXCEPT !.shutdown_called = TRUE ]
    /\ UNCHANGED <<pc, sm, spec, force_full_heartbeat, topology, command_ch,
                   out, last_response, event_ch, env>>

HostSend(c) ==
    /\ ~env.handle_dropped
    /\ command_ch' = IF try_send_ok(Len(command_ch), CommandBuf)
                     THEN Append(command_ch, c) ELSE command_ch
    /\ UNCHANGED <<pc, sm, spec, force_full_heartbeat, topology, handle_state,
                   shutdown_ch, out, hist, last_response, event_ch, env>>

HostUpdateTools == \E tools \in ToolLists : HostSend(UpdateTools(tools))

HostUpdatePort == \E port \in Ports : HostSend(UpdatePort(port))

Next ==
    \/ ExitLoop \/ ForcedFullHeartbeat \/ SendFull \/ SendFast
    \/ StartWait \/ StartRetry
    \/ WaitSleep \/ WaitShutdown \/ WaitCommand
    \/ RetrySleep \/ RetryShutdown \/ RetryCommand
    \/ TimePasses
    \/ HostShutdown \/ HostUpdateTools \/ HostUpdatePort

Spec == Init /\ [][Next]_vars

\* The runtime loop with a host that requests shutdown and updates the port
\* but leaves the tools alone: what the state machine, the shared handle
\* state and the events do does not depend on the tools.
NextLoop ==
    \/ ExitLoop \/ ForcedFullHeartbeat \/ SendFull \/ SendFast
    \/ StartWait \/ StartRetry
    \/ WaitSleep \/ WaitShutdown \/ WaitCommand
    \/ RetrySleep \/ RetryShutdown \/ RetryCommand
    \/ TimePasses
    \/ HostShutdown \/ HostUpdatePort

SpecLoop == Init /\ [][NextLoop]_vars

(***************************************************************************)
(* The event channel when the host stops calling next_event.               *)
(***************************************************************************)
\* The host stops draining the event channel.
HostStopsDraining ==
    /\ env.draining
    /\ env' = [ env EXCEPT !.draining = FALSE ]
    /\ UNCHANGED <<pc, sm, spec, force_full_heartbeat, topology, handle_state,
                   shutdown_ch, command_ch, out, hist, last_response, event_ch>>

\* A variant of recv that hands out the newest event of the channel.
recv_newest(queue) ==
    [ value |-> queue[Len(queue)], rest |-> SubSeq(queue, 1, Len(queue) - 1) ]

\* rx.recv() on a channel that holds an event: the oldest one leaves it.
recv(queue) == [ value |-> Head(queue), rest |-> Tail(queue) ]

\* "None => Ok(MeshEvent::shutdown())": what next_event returns once the
\* channel is closed and empty. It is no event of the runtime: its id is 0.
synthetic_shutdown == [ type |-> "shutdown", id |-> 0 ]

\* next_event: the host takes one event from the channel; with the channel
\* empty the call waits while the runtime lives, and returns the synthetic
\* shutdown event once run() has returned and dropped the sender.
HostNextEvent ==
    /\ ~env.draining
    /\ IF event_ch.queue # <<>>
       THEN event_ch' = [ event_ch EXCEPT !.queue = recv(@).rest,
                                         !.returned = Some(recv(event_ch.queue).value),
                                         !.delivered = @ + 1 ]
       ELSE /\ pc = "done"
            /\ event_ch' = [ event_ch EXCEPT !.returned = Some(synthetic_shutdown) ]
    /\ UNCHANGED <<pc, sm, spec, force_full_heartbeat, topology, handle_state,
                   shutdown_ch, command_ch, out, hist, last_response, env>>

\* event_tx.send(event).await completes once the channel has room; the
\* runtime goes on with its next event or, after the last, with its loop.
EventSendResumes ==
    /\ pc = "send"
    /\ Len(event_ch.queue) < EventBuf
    /\ event_ch' = [ event_ch EXCEPT !.queue = Append(@, Head(event_ch.unsent)),
                                     !.unsent = Tail(@) ]
    /\ pc' = IF Len(event_ch.unsent) = 1 THEN event_ch.resume ELSE "send"
    /\ UNCHANGED <<sm, spec, force_full_heartbeat, topology, handle_state,
                   shutdown_ch, command_ch, out, hist, last_response, env>>

\* The runtime loop of a host that sends no command.
NextEvents ==
    \/ ExitLoop \/ SendFull \/ SendFast
    \/ StartWait \/ StartRetry
    \/ WaitSleep \/ WaitShutdown
    \/ RetrySleep \/ RetryShutdown
    \/ TimePasses
    \/ HostShutdown
    \/ HostStopsDraining \/ HostNextEvent \/ EventSendResumes

SpecEvents == Init /\ [][NextEvents]_vars

(***************************************************************************)
(* handle.rs, napi.rs: the awaiting variants of the host's sends.          *)
(***************************************************************************)
\* update_tools_async / update_port_async: command_tx.send(c).await. With
\* room in the channel the command is queued and the call returns true;
\* with the receiver gone it returns false; with the channel full the call
\* waits, and env.async_send holds the command it waits to queue.
HostSendAsync(c) ==
    /\ ~env.handle_dropped
    /\ env.async_send = None
    /\ pc # "done"
    /\ IF Len(command_ch) < CommandBuf
       THEN command_ch' = Append(command_ch, c) /\ env' = env
       ELSE command_ch' = command_ch /\ env' = [ env EXCEPT !.async_send = Some(c) ]
    /\ UNCHANGED <<pc, sm, spec, force_full_heartbeat, topology, handle_state,
                   shutdown_ch, out, hist, last_response, event_ch>>

HostUpdateToolsAsync == \E tools \in ToolLists : HostSendAsync(UpdateTools(tools))

HostUpdatePortAsync == \E port \in Ports : HostSendAsync(UpdatePort(port))

\* The waiting send completes: the runtime has made room, or has ended and
\* dropped the receiver.
AsyncSendCompletes ==
    /\ env.async_send # None
    /\ pc = "done" \/ Len(command_ch) < CommandBuf
    /\ command_ch' = IF pc = "done" THEN command_ch
                     ELSE Append(command_ch, env.async_send[1])
    /\ env' = [ env EXCEPT !.async_send = None ]
    /\ UNCHANGED <<pc, sm, spec, force_full_heartbeat, topology, handle_state,
                   shutdown_ch, out, hist, last_response, event_ch>>

NextAsync ==
    Next \/ HostUpdateToolsAsync \/ HostUpdatePortAsync \/ AsyncSendCompletes

SpecAsync == Init /\ [][NextAsync]_vars

(***************************************************************************)
(* ffi.rs: mesh_report_health                                              *)
(***************************************************************************)
\* The strings a host may pass, one of them not a health status.
HealthStrings == {"healthy", "degraded", "unhealthy", "ok"}

\* "match status_str": the status a string names, None for any other.
parse_health_status(str) ==
    CASE str = "healthy" -> Some("Healthy")
      [] str = "degraded" -> Some("Degraded")
      [] str = "unhealthy" -> Some("Unhealthy")
      [] OTHER -> None

\* mesh_report_health writes the parsed status to the shared state, and
\* returns -1 without writing for a string that names no status.
mesh_report_health(hs, str) ==
    IF parse_health_status(str) = None
    THEN hs
    ELSE [ hs EXCEPT !.health_status = parse_health_status(str)[1] ]

HostReportHealth ==
    /\ \E str \in HealthStrings :
          handle_state' = mesh_report_health(handle_state, str)
    /\ UNCHANGED <<pc, sm, spec, force_full_heartbeat, topology, shutdown_ch,
                   command_ch, out, hist, last_response, event_ch, env>>

NextHealth == Next \/ HostReportHealth

SpecHealth == Init /\ [][NextHealth]_vars

(***************************************************************************)
(* The channels once the host has dropped its handle.                      *)
(***************************************************************************)
\* The host lets go of its AgentHandle without calling shutdown: the
\* senders of the shutdown and command channels are dropped with it.
HostDropsHandle ==
    /\ ~env.handle_dropped
    /\ env' = [ env EXCEPT !.handle_dropped = TRUE ]
    /\ UNCHANGED <<pc, sm, spec, force_full_heartbeat, topology, handle_state,
                   shutdown_ch, command_ch, out, hist, last_response, event_ch>>

\* recv() on a channel that is empty and has no sender returns None at once.
closed(len) == env.handle_dropped /\ len = 0

\* "_ = self.shutdown_rx.recv() => shutdown()": the pattern matches None too.
WakeOnShutdownClosed(s) == [ s EXCEPT !.sm = shutdown(@) ]

\* "if let Some(cmd) = cmd": None is passed over.
WakeOnCommandClosed(s) == s

WaitShutdownClosed ==
    /\ pc = "wait"
    /\ closed(shutdown_ch)
    /\ Commit(WakeOnShutdownClosed(Bundle))
    /\ Goto("top")
    /\ UNCHANGED <<shutdown_ch, command_ch>>

WaitCommandClosed ==
    /\ pc = "wait"
    /\ closed(Len(command_ch))
    /\ Commit(WakeOnCommandClosed(Bundle))
    /\ Goto("top")
    /\ UNCHANGED <<shutdown_ch, command_ch>>

RetryShutdownClosed ==
    /\ pc = "retry"
    /\ closed(shutdown_ch)
    /\ AfterBackoff(WakeOnShutdownClosed(Bundle))
    /\ Goto("top")
    /\ UNCHANGED <<shutdown_ch, command_ch>>

RetryCommandClosed ==
    /\ pc = "retry"
    /\ closed(Len(command_ch))
    /\ AfterBackoff(WakeOnCommandClosed(Bundle))
    /\ Goto("top")
    /\ UNCHANGED <<shutdown_ch, command_ch>>

NextDrop ==
    \/ Next
    \/ HostDropsHandle
    \/ WaitShutdownClosed \/ WaitCommandClosed
    \/ RetryShutdownClosed \/ RetryCommandClosed

SpecDrop == Init /\ [][NextDrop]_vars

(***************************************************************************)
(* The loop when the registry recovers and no shutdown is requested.       *)
(***************************************************************************)
\* From now on the registry answers every request.
RegistryRecovers ==
    /\ ~env.registry_up
    /\ env' = [ env EXCEPT !.registry_up = TRUE ]
    /\ UNCHANGED <<pc, sm, spec, force_full_heartbeat, topology, handle_state,
                   shutdown_ch, command_ch, out, hist, last_response, event_ch>>

\* The steps the runtime takes by itself: a request is answered, a sleep
\* runs to its end.
RuntimeProgress ==
    \/ SendFull \/ SendFast
    \/ StartWait \/ StartRetry
    \/ WaitSleep \/ RetrySleep

\* The host sends no command and requests no shutdown.
NextRecovery == RuntimeProgress \/ TimePasses \/ RegistryRecovers

\* The tokio task of run() is scheduled, timers fire and time passes.
SpecRecovery ==
    /\ Init
    /\ [][NextRecovery]_vars
    /\ WF_vars(RuntimeProgress)
    /\ WF_vars(TimePasses)

(***************************************************************************)
(* The diff engine alone: one heartbeat response after another.            *)
(***************************************************************************)
\* last_response, hist.repeated and hist.before observe one response and its
\* immediate repetition: the snapshot and the shared view before the response
\* was processed, and whether it repeats the one before. BatchObserved closes
\* the observation, after which the registry may answer with any response.
Observe(pre, post, r) ==
    [ post EXCEPT !.last = Some(r),
                  !.hist.repeated = (pre.last = Some(r)),
                  !.hist.before = Some([ topology |-> pre.topology,
                                         view |-> pre.hs.dependencies ]) ]

ProcessResponse ==
    /\ last_response = None
    /\ \E r \in TopoResponses : \E ord \in ResponseOrders(Bundle, r) :
          Commit(Observe(Bundle, process_heartbeat_response(Bundle, r, ord), r))
    /\ UNCHANGED <<pc, shutdown_ch, command_ch, event_ch, env>>

\* The registry answers the next heartbeat with the same response.
RepeatResponse ==
    /\ last_response # None
    /\ \E ord \in ResponseOrders(Bundle, last_response[1]) :
          Commit(Observe(Bundle,
                         process_heartbeat_response(Bundle, last_response[1], ord),
                         last_response[1]))
    /\ UNCHANGED <<pc, shutdown_ch, command_ch, event_ch, env>>

BatchObserved ==
    /\ last_response # None
    /\ out' = <<>>
    /\ last_response' = None
    /\ hist' = [ hist EXCEPT !.repeated = FALSE, !.before = None ]
    /\ UNCHANGED <<pc, sm, spec, force_full_heartbeat, topology, handle_state,
                   shutdown_ch, command_ch, event_ch, env>>

TopoNext == ProcessResponse \/ RepeatResponse \/ BatchObserved

DefaultMissedThreshold == 4

InitTopo == InitWith(DefaultMissedThreshold)

SpecTopo == InitTopo /\ [][TopoNext]_vars

(***************************************************************************)
(* config.rs: configuration resolution                                     *)
(***************************************************************************)
ConfigKeys ==
    { "RegistryUrl", "HttpHost", "HttpPort", "Namespace", "AgentName", "AgentId",
      "HealthInterval", "DistributedTracingEnabled", "RedisUrl" }

env_var(key) ==
    CASE key = "RegistryUrl" -> "MCP_MESH_REGISTRY_URL"
      [] key = "HttpHost" -> "MCP_MESH_HTTP_HOST"
      [] key = "HttpPort" -> "MCP_MESH_HTTP_PORT"
      [] key = "Namespace" -> "MCP_MESH_NAMESPACE"
      [] key = "AgentName" -> "MCP_MESH_AGENT_NAME"
      [] key = "AgentId" -> "MCP_MESH_AGENT_ID"
      [] key = "HealthInterval" -> "MCP_MESH_HEALTH_INTERVAL"
      [] key = "DistributedTracingEnabled" -> "MCP_MESH_DISTRIBUTED_TRACING_ENABLED"
      [] key = "RedisUrl" -> "REDIS_URL"

default_value(key) ==
    CASE key = "RegistryUrl" -> Some("http://localhost:8000")
      [] key = "HttpHost" -> None
      [] key = "HttpPort" -> None
      [] key = "Namespace" -> Some("default")
      [] key = "AgentName" -> None
      [] key = "AgentId" -> None
      [] key = "HealthInterval" -> Some("5")
      [] key = "DistributedTracingEnabled" -> Some("false")
      [] key = "RedisUrl" -> Some("redis://localhost:6379")

\* The key names a caller may pass: the nine names, one of them also in
\* upper case, and two that name no key.
KeyNames ==
    { "registry_url", "http_host", "http_port", "namespace", "agent_name",
      "agent_id", "health_interval", "distributed_tracing_enabled", "redis_url",
      "NAMESPACE", "registry-url", "" }

\* str::to_lowercase on the names of KeyNames.
to_lowercase(name) == IF name = "NAMESPACE" THEN "namespace" ELSE name

from_name(name) ==
    LET lower == to_lowercase(name) IN
    CASE lower = "registry_url" -> Some("RegistryUrl")
      [] lower = "http_host" -> Some("HttpHost")
      [] lower = "http_port" -> Some("HttpPort")
      [] lower = "namespace" -> Some("Namespace")
      [] lower = "agent_name" -> Some("AgentName")
      [] lower = "agent_id" -> Some("AgentId")
      [] lower = "health_interval" -> Some("HealthInterval")
      [] lower = "distributed_tracing_enabled" -> Some("DistributedTracingEnabled")
      [] lower = "redis_url" -> Some("RedisUrl")
      [] OTHER -> None

\* The process environment: no variable set, or one variable of the nine
\* set to the empty string or to a value.
Environments ==
    { [ name |-> "", value |-> "" ] } \cup
    { [ name |-> env_var(k), value |-> v ] : k \in ConfigKeys, v \in {"", "from-env"} }

\* env::var(name): Ok(value) when the variable is set.
env_lookup(environment, name) ==
    IF environment.name = name /\ name # "" THEN Some(environment.value) ELSE None

\* The values a caller may pass as param_value.
ParamValues == { None, Some(""), Some("from-param") }

\* What auto_detect_external_ip may return: the outgoing interface's
\* address, or "localhost" when the detection fails.
DetectedIps == { "10.1.2.3", "localhost" }

\* A variant that lets a caller's parameter win over the environment.
resolve_config_param_first(key, param_value, environment, ip) ==
    IF param_value # None /\ param_value[1] # ""
    THEN Some(param_value[1])
    ELSE IF env_lookup(environment, env_var(key)) # None
            /\ env_lookup(environment, env_var(key))[1] # ""
         THEN Some(env_lookup(environment, env_var(key))[1])
         ELSE IF key = "HttpHost" THEN Some(ip) ELSE default_value(key)

resolve_config(key, param_value, environment, ip) ==
    LET value == env_lookup(environment, env_var(key)) IN
    IF value # None /\ value[1] # ""
    THEN Some(value[1])
    ELSE IF param_value # None /\ param_value[1] # ""
         THEN Some(param_value[1])
         ELSE IF key = "HttpHost"
              THEN Some(ip)
              ELSE default_value(key)

\* Option::unwrap_or_default on an Option<String>.
unwrap_or_default(opt) == IF opt = None THEN "" ELSE opt[1]

resolve_config_by_name(key_name, param_value, environment, ip) ==
    IF from_name(key_name) = None
    THEN ""
    ELSE unwrap_or_default(
             resolve_config(from_name(key_name)[1], param_value, environment, ip))

\* One call of resolve_config; env.config keeps its inputs and its result.
ResolveConfig ==
    /\ env.config = None
    /\ \E key \in ConfigKeys, param \in ParamValues,
          environment \in Environments, ip \in DetectedIps :
          env' = [ env EXCEPT !.config =
                     Some([ fn |-> "resolve_config", key |-> key, name |-> "",
                            param |-> param, environment |-> environment, ip |-> ip,
                            option |-> resolve_config(key, param, environment, ip),
                            string |-> "" ]) ]
    /\ UNCHANGED <<pc, sm, spec, force_full_heartbeat, topology, handle_state,
                   shutdown_ch, command_ch, out, hist, last_response, event_ch>>

\* One call of resolve_config_by_name.
ResolveConfigByName ==
    /\ env.config = None
    /\ \E name \in KeyNames, param \in ParamValues,
          environment \in Environments, ip \in DetectedIps :
          env' = [ env EXCEPT !.config =
                     Some([ fn |-> "resolve_config_by_name", key |-> "", name |-> name,
                            param |-> param, environment |-> environment, ip |-> ip,
                            option |-> None,
                            string |-> resolve_config_by_name(name, param,
                                                              environment, ip) ]) ]
    /\ UNCHANGED <<pc, sm, spec, force_full_heartbeat, topology, handle_state,
                   shutdown_ch, command_ch, out, hist, last_response, event_ch>>

NextConfig == ResolveConfig \/ ResolveConfigByName

SpecConfig == InitTopo /\ [][NextConfig]_vars

(***************************************************************************)
(* Properties of the runtime loop, checked under Spec.                     *)
(***************************************************************************)
\* How many events of type ty the sequence q of requests and events holds.
CountType(q, ty) ==
    Cardinality({ i \in DOMAIN q : q[i].kind = "event" /\ q[i].type = ty })

CountMethod(q, method) ==
    Cardinality({ i \in DOMAIN q : q[i].kind = "request" /\ q[i].method = method })

\* C1: agent_registered has been emitted exactly once if some full heartbeat
\* has succeeded and never otherwise; the step that emits it is the one
\* that handles the first counted heartbeat, so no later success (forced,
\* after AgentUnknown, after reconnecting) emits it again.
C1_AgentRegisteredOnce ==
    /\ hist.agent_registered = IF hist.full_ok THEN 1 ELSE 0
    /\ CountType(out, "agent_registered") <= 1
    /\ CountType(out, "agent_registered") = 1 =>
          /\ sm.heartbeat_count = 1
          /\ CountMethod(out, "POST") = 1
          /\ CountType(out, "registration_failed") = 0

\* A re-registration after AgentUnknown succeeded and emitted no second event.
C1_Witness ==
    /\ hist.agent_registered = 1
    /\ sm.heartbeat_count > 1
    /\ Len(out) >= 2
    /\ out[1].kind = "request" /\ out[1].method = "HEAD"
    /\ out[1].result = "AgentUnknown"
    /\ CountMethod(out, "POST") = 1
    /\ CountType(out, "registration_failed") = 0
    /\ CountType(out, "agent_registered") = 0

\* C2: the shutdown event has been emitted once when run() has returned and
\* not at all before; it is the last thing the last step of run() did, and
\* nothing is emitted after it.
C2_ShutdownEventLast ==
    /\ hist.shutdown_events = IF pc = "done" THEN 1 ELSE 0
    /\ CountType(out, "shutdown") = hist.shutdown_events
    /\ pc = "done" => out[Len(out)] = shutdown_event

\* The runtime registered, ran, and has returned.
C2_Witness ==
    /\ pc = "done"
    /\ hist.agent_registered = 1
    /\ out[Len(out)] = shutdown_event

\* C3: once a shutdown signal has been consumed and no other is pending,
\* the runtime is shutting down (its next pass through the loop unregisters
\* and exits) or has exited: it needs no further shutdown() call.
C3_SignalLeadsToExit ==
    (hist.sig_consumed /\ shutdown_ch = 0)
        => (is_shutting_down(sm) /\ pc \in {"top", "done"})

\* C4: run() returns only after exactly one DELETE, issued in the step that
\* ends the loop and followed there by the shutdown event alone, whatever
\* the outcome of the DELETE; no DELETE is issued before.
C4_OneUnregisterThenShutdown ==
    /\ hist.deletes = IF pc = "done" THEN 1 ELSE 0
    /\ CountMethod(out, "DELETE") = hist.deletes
    /\ pc = "done" =>
          /\ Len(out) = 2
          /\ \E o \in DeleteOutcomes : out[1] = unregister_agent(spec, o)
          /\ out[2] = shutdown_event

\* The DELETE was answered with a 500 and the runtime has returned.
C4_Witness ==
    /\ pc = "done"
    /\ Len(out) = 2
    /\ out[1] = unregister_agent(spec, "500")
    /\ out[2] = shutdown_event

\* C5: after any number of shutdown() calls shutdown_requested is true, the
\* shutdown channel holds at most one signal, a further call can always be
\* made, and the runtime has made at most one unregister attempt.
C5_ShutdownIdempotent ==
    /\ hist.shutdown_called => handle_state.shutdown_requested
    /\ shutdown_ch <= ShutdownCap
    /\ ENABLED HostShutdown
    /\ hist.deletes <= 1

\* The runtime consumed the signal of one shutdown() call and has not yet
\* reached the top of its loop; a later call left one more signal pending.
C5_Witness ==
    /\ hist.shutdown_called
    /\ hist.sig_consumed
    /\ pc # "done"
    /\ shutdown_ch = ShutdownCap
    /\ handle_state.shutdown_requested

(***************************************************************************)
(* Properties of the diff engine, checked under SpecTopo.                  *)
(***************************************************************************)
DepEventTypes ==
    {"dependency_unavailable", "dependency_available", "dependency_changed"}

IsDepEvent(e) == e.kind = "event" /\ e.type \in DepEventTypes

EventKey(e) == <<e.requesting_function, e.dep_index>>

\* The positions of q that hold a dependency event about key k.
DepEventsAbout(q, k) ==
    { i \in DOMAIN q : IsDepEvent(q[i]) /\ EventKey(q[i]) = k }

DepEventsEmitted(q) ==
    { <<q[i].type, EventKey(q[i])>> : i \in { j \in DOMAIN q : IsDepEvent(q[j]) } }

\* The response read directly: the listed positions, 0-based, of every
\* requesting function, and those whose provider is available or healthy.
ListedKeys(resolved) ==
    UNION { { <<f, i - 1>> : i \in DOMAIN resolved[f] } : f \in DOMAIN resolved }

EntryAt(resolved, k) == resolved[k[1]][k[2] + 1]

PresentKeys(resolved) ==
    { k \in ListedKeys(resolved) :
        EntryAt(resolved, k).status \in {"available", "healthy"} }

SameProvider(v, p) ==
    v.endpoint = p.endpoint /\ v.function_name = p.function_name

ExpectedDepEvents(old, resolved) ==
    { <<"dependency_unavailable", k>> : k \in DOMAIN old \ PresentKeys(resolved) }
    \cup { <<"dependency_available", k>> : k \in PresentKeys(resolved) \ DOMAIN old }
    \cup { <<"dependency_changed", k>> :
             k \in { x \in PresentKeys(resolved) \cap DOMAIN old :
                       ~SameProvider(old[x], EntryAt(resolved, x)) } }

SnapshotBefore == hist.before[1].topology.dependencies

ResolvedNow == last_response[1].dependencies_resolved

\* C6: the dependency events of one response are one dependency_unavailable
\* for each key of the old snapshot absent from the response, one
\* dependency_available for each key new in it, one dependency_changed for
\* each key in both whose endpoint or function_name differs, and no other.
C6_DependencyEventsAreTheDiff ==
    last_response # None =>
        /\ DepEventsEmitted(out) = ExpectedDepEvents(SnapshotBefore, ResolvedNow)
        /\ \A k \in ListedKeys(ResolvedNow) \cup DOMAIN SnapshotBefore :
              Cardinality(DepEventsAbout(out, k)) <= 1

\* One response removed one tracked key and changed another.
C6_Witness ==
    /\ last_response # None
    /\ \E k1, k2 \in DOMAIN SnapshotBefore :
          /\ <<"dependency_unavailable", k1>> \in DepEventsEmitted(out)
          /\ <<"dependency_changed", k2>> \in DepEventsEmitted(out)

\* C7: a response identical to the one processed just before it emits no
\* event and leaves the topology snapshot and the shared dependency view
\* as they were.
C7_RepeatedResponseIsSilent ==
    hist.repeated =>
        /\ out = <<>>
        /\ topology = hist.before[1].topology
        /\ handle_state.dependencies = hist.before[1].view

\* A response with dependencies, LLM tools and an LLM provider was repeated.
C7_Witness ==
    /\ hist.repeated
    /\ PresentKeys(ResolvedNow) # {}
    /\ \E f \in DOMAIN last_response[1].llm_tools : last_response[1].llm_tools[f] # <<>>
    /\ DOMAIN last_response[1].llm_providers # {}

EventRank(e) ==
    CASE e.type = "dependency_unavailable" -> 1
      [] e.type \in {"dependency_available", "dependency_changed"} -> 2
      [] e.type = "llm_tools_updated" -> 3
      [] e.type = "llm_provider_available" -> 4
      [] OTHER -> 0

\* C8: in the events of one response every dependency_unavailable precedes
\* every dependency_available or dependency_changed, these precede every
\* llm_tools_updated, and those precede every llm_provider_available.
C8_BatchOrder ==
    \A i, j \in DOMAIN out :
        (i < j /\ out[i].kind = "event" /\ out[j].kind = "event")
            => (EventRank(out[i]) > 0 /\ EventRank(out[i]) <= EventRank(out[j]))

\* One response produced events of all four classes.
C8_Witness ==
    /\ last_response # None
    /\ { EventRank(out[i]) : i \in DOMAIN out } = {1, 2, 3, 4}

\* C9: every listed position with a usable provider is tracked under its own
\* (requesting_function, 0-based position) key, also when two positions name
\* the same capability; a key new in the response gets one
\* dependency_available of its own; a key whose provider is as before gets
\* no event and keeps its snapshot entry, whatever happens to other keys.
C9_KeyedByFunctionAndIndex ==
    last_response # None =>
        /\ DOMAIN topology.dependencies = PresentKeys(ResolvedNow)
        /\ \A k \in PresentKeys(ResolvedNow) \ DOMAIN SnapshotBefore :
              /\ Cardinality(DepEventsAbout(out, k)) = 1
              /\ \A i \in DepEventsAbout(out, k) :
                    /\ out[i].type = "dependency_available"
                    /\ out[i].capability = EntryAt(ResolvedNow, k).capability
        /\ \A k \in PresentKeys(ResolvedNow) \cap DOMAIN SnapshotBefore :
              SameProvider(SnapshotBefore[k], EntryAt(ResolvedNow, k)) =>
                  /\ DepEventsAbout(out, k) = {}
                  /\ topology.dependencies[k] = SnapshotBefore[k]

\* Two positions of one function held the same capability; the response
\* changed or removed the first only, and the only event is about it.
C9_Witness ==
    /\ last_response # None
    /\ {<<"f", 0>>, <<"f", 1>>} \subseteq DOMAIN SnapshotBefore
    /\ SnapshotBefore[<<"f", 0>>].capability = SnapshotBefore[<<"f", 1>>].capability
    /\ Cardinality(DepEventsAbout(out, <<"f", 0>>)) = 1
    /\ DepEventsAbout(out, <<"f", 1>>) = {}
    /\ topology.dependencies[<<"f", 1>>] = SnapshotBefore[<<"f", 1>>]

\* C10: a listed provider whose status is neither "available" nor "healthy"
\* gets no dependency_available or dependency_changed and no snapshot entry
\* for its key, and one dependency_unavailable if the key was tracked.
C10_UnusableProviderIsAbsent ==
    last_response # None =>
        \A k \in ListedKeys(ResolvedNow) \ PresentKeys(ResolvedNow) :
            /\ k \notin DOMAIN topology.dependencies
            /\ \A i \in DepEventsAbout(out, k) : out[i].type = "dependency_unavailable"
            /\ Cardinality(DepEventsAbout(out, k)) =
                  IF k \in DOMAIN SnapshotBefore THEN 1 ELSE 0

\* A tracked provider came back listed as degraded.
C10_Witness ==
    /\ last_response # None
    /\ \E k \in ListedKeys(ResolvedNow) \cap DOMAIN SnapshotBefore :
          /\ EntryAt(ResolvedNow, k).status = "degraded"
          /\ Cardinality(DepEventsAbout(out, k)) = 1

(***************************************************************************)
(* Properties of the fast heartbeat, checked under Spec.                   *)
(***************************************************************************)
IsRequest(e, method) == e.kind = "request" /\ e.method = method

FastErrors == {"RegistryError", "NetworkError"}

\* C11: a step that sends a HEAD sends it first and once; when the HEAD
\* answers TopologyChanged or AgentUnknown the same step goes on with one
\* POST, and when it answers NoChanges, RegistryError or NetworkError the
\* step ends with the HEAD and sends no POST.
C11_FullFollowsFastInSameIteration ==
    /\ CountMethod(out, "HEAD") <= 1
    /\ \A i \in DOMAIN out : IsRequest(out[i], "HEAD") =>
          /\ i = 1
          /\ IF out[1].result \in {"TopologyChanged", "AgentUnknown"}
             THEN /\ Len(out) >= 2
                  /\ IsRequest(out[2], "POST")
                  /\ CountMethod(out, "POST") = 1
             ELSE Len(out) = 1

\* A HEAD answered TopologyChanged was followed by the POST in one step.
C11_Witness ==
    /\ Len(out) >= 2
    /\ IsRequest(out[1], "HEAD")
    /\ out[1].result = "TopologyChanged"
    /\ IsRequest(out[2], "POST")

\* C12: AgentUnknown leaves the state machine unregistered, with registered
\* false and SendFull as its next action; when the POST that follows
\* succeeds the agent is registered again, healthy or degraded, and
\* agent_registered is not emitted again.
C12_ReRegistrationIsSilent ==
    /\ sm.state \in {"Healthy", "Degraded"} =>
          LET m == on_fast_heartbeat_result(sm, "AgentUnknown") IN
          /\ m.state = "Unregistered"
          /\ ~m.registered
          /\ next_action(m).type = "SendFull"
    /\ (out # <<>> /\ IsRequest(out[1], "HEAD") /\ out[1].result = "AgentUnknown") =>
          IF CountType(out, "registration_failed") = 0
          THEN /\ sm.registered
               /\ sm.state \in {"Healthy", "Degraded"}
               /\ CountType(out, "agent_registered") = 0
               /\ hist.agent_registered = 1
          ELSE /\ ~sm.registered
               /\ sm.state \in {"Unregistered", "Reconnecting"}

\* The registry had forgotten the agent and accepted its re-registration.
C12_Witness ==
    /\ out # <<>>
    /\ IsRequest(out[1], "HEAD")
    /\ out[1].result = "AgentUnknown"
    /\ CountType(out, "registration_failed") = 0
    /\ sm.registered
    /\ sm.state = "Healthy"
    /\ hist.agent_registered = 1

\* C13: in a registered state a fast heartbeat that fails with RegistryError
\* or NetworkError adds one to the consecutive failures; while the count is
\* below missed_threshold nothing else changes, and when it reaches
\* missed_threshold the state is reconnecting with retry attempt 0; NoChanges
\* sets the count to 0. A registered state never holds missed_threshold
\* failures.
C13_ReconnectAtThreshold ==
    /\ sm.state \in {"Healthy", "Degraded"} =>
          /\ sm.consecutive_failures < sm.missed_threshold
          /\ on_fast_heartbeat_result(sm, "NoChanges").consecutive_failures = 0
          /\ on_fast_heartbeat_result(sm, "NoChanges").state = sm.state
          /\ \A st \in FastErrors :
                LET m == on_fast_heartbeat_result(sm, st) IN
                IF sm.consecutive_failures + 1 < sm.missed_threshold
                THEN m = [sm EXCEPT !.consecutive_failures = @ + 1]
                ELSE m = [sm EXCEPT !.consecutive_failures = sm.missed_threshold,
                                    !.state = "Reconnecting",
                                    !.retry_attempt = 0]
    /\ (Len(out) = 1 /\ IsRequest(out[1], "HEAD") /\ out[1].result \in FastErrors) =>
          /\ sm.consecutive_failures >= 1
          /\ sm.state = "Reconnecting" <=> sm.consecutive_failures >= sm.missed_threshold
          /\ sm.state = "Reconnecting" => sm.retry_attempt = 0

\* With missed_threshold 2 the second failed HEAD in a row made the state
\* machine reconnect.
C13_Witness ==
    /\ Len(out) = 1
    /\ IsRequest(out[1], "HEAD")
    /\ out[1].result \in FastErrors
    /\ sm.missed_threshold = 2
    /\ sm.consecutive_failures = 2
    /\ sm.state = "Reconnecting"
    /\ sm.retry_attempt = 0

(***************************************************************************)
(* Commands.                                                               *)
(***************************************************************************)
\* The tool lists a host may send: those of ToolLists and one that differs
\* from a list of ToolLists only in a field the smart diff does not compare.
ToolUpdates ==
    ToolLists \cup
    { << [ ToolSpec("greet", "greeting", << DependencySpec("c1") >>)
             EXCEPT !.description = "says hello" ] >> }

\* The fields the smart diff compares.
ComparedFields(tools) ==
    [ i \in DOMAIN tools |->
        [ function_name |-> tools[i].function_name,
          capability |-> tools[i].capability,
          version |-> tools[i].version,
          dependencies |-> tools[i].dependencies ] ]

\* C17: UpdateTools(T) processed twice in succession forces a full heartbeat
\* at most once. The first replaces spec.tools and sets the flag exactly when
\* T differs from the current tools in a compared field, and otherwise
\* changes nothing; the second changes nothing, whether or not the forced
\* heartbeat has cleared the flag in between; and a queue holding the command
\* twice leaves the runtime where a queue holding it once does.
C17_SecondUpdateToolsIsNoOp ==
    \A T \in ToolUpdates :
        LET s0 == Bundle
            s1 == handle_update_tools(s0, T)
            cleared == [ s1 EXCEPT !.force = FALSE ]
            differs == ComparedFields(T) # ComparedFields(s0.spec.tools)
        IN /\ tools_are_different(s0.spec.tools, T) = differs
           /\ differs => s1 = [ s0 EXCEPT !.spec.tools = T, !.force = TRUE ]
           /\ ~differs => s1 = s0
           /\ handle_update_tools(s1, T) = s1
           /\ handle_update_tools(cleared, T) = cleared
           /\ process_pending_commands(s0, << UpdateTools(T), UpdateTools(T) >>)
                 = process_pending_commands(s0, << UpdateTools(T) >>)

\* An update has replaced the tools and forced a heartbeat, and the host has
\* queued the same tools again.
C17_Witness ==
    /\ pc = "top"
    /\ force_full_heartbeat
    /\ spec.tools # <<>>
    /\ command_ch = << UpdateTools(spec.tools) >>

\* A step of the runtime loop, as opposed to one of the host or of time.
RuntimeStep ==
    \/ ExitLoop \/ ForcedFullHeartbeat \/ SendFull \/ SendFast
    \/ StartWait \/ StartRetry
    \/ WaitSleep \/ WaitShutdown \/ WaitCommand
    \/ RetrySleep \/ RetryShutdown \/ RetryCommand

\* The commands a runtime step takes from the command channel.
Consumed == SubSeq(command_ch, 1, Len(command_ch) - Len(command_ch'))

\* The step processes an UpdatePort whose port is not the current one.
PortUpdated ==
    \E i \in DOMAIN Consumed :
        Consumed[i].cmd = "UpdatePort" /\ Consumed[i].port # spec.http_port

HasRequest(q) == \E i \in DOMAIN q : q[i].kind = "request"

\* The runtime has moved: only a step of the loop changes the position or
\* the flag, or takes a command from the channel. With the flag set every
\* step of the loop does one of these: it ends the loop or clears the flag.
RuntimeMoved ==
    \/ pc' # pc
    \/ force_full_heartbeat' # force_full_heartbeat
    \/ Len(command_ch') < Len(command_ch)

\* C18: UpdatePort(p) with p other than the current port stores p and sets
\* force_full_heartbeat, and with p equal to it changes nothing. A runtime
\* step that processes such a command, or that starts with the flag set,
\* either ends the loop because of a shutdown, or sends a POST carrying the
\* new port as its first request, or sends no request and leaves the flag
\* set at the top of the loop; the flag is never set while the runtime
\* sleeps in a Wait or in a Retry backoff.
C18_PortChangeForcesFullHeartbeat ==
    /\ [](/\ \A p \in Ports \cup {spec.http_port} :
               handle_command(Bundle, UpdatePort(p)) =
                  IF p # spec.http_port
                  THEN [ Bundle EXCEPT !.spec.http_port = p, !.force = TRUE ]
                  ELSE Bundle
          /\ force_full_heartbeat => pc \in {"top", "done"})
    /\ [][ ((force_full_heartbeat \/ PortUpdated) /\ RuntimeMoved) =>
             /\ PortUpdated =>
                   \E i \in DOMAIN Consumed :
                       /\ Consumed[i].cmd = "UpdatePort"
                       /\ Consumed[i].port = spec'.http_port
             /\ \/ pc' = "done" /\ is_shutting_down(sm)' /\ ~HasRequest(
                      SelectSeq(out', LAMBDA e : ~IsRequest(e, "DELETE")))
                \/ /\ out' # <<>>
                   /\ IsRequest(out'[1], "POST")
                   /\ out'[1].http_port = spec'.http_port
                \/ /\ ~HasRequest(out')
                   /\ force_full_heartbeat'
                   /\ pc' = "top" ]_vars

\* A port change processed during a Wait has set the flag, and the runtime
\* is back at the top of its loop with no request sent since.
C18_Witness ==
    /\ pc = "top"
    /\ force_full_heartbeat
    /\ spec.http_port \in Ports
    /\ spec.tools = <<>>
    /\ out = <<>>

(***************************************************************************)
(* The event channel, checked under SpecEvents.                            *)
(***************************************************************************)
\* C14: the runtime never waits in an event send with the channel full; it
\* is always at a position of its loop from which it goes on.
C14_EventSendNeverBlocks ==
    ~(pc = "send" /\ Len(event_ch.queue) = EventBuf /\ event_ch.unsent # <<>>)

(***************************************************************************)
(* The host's sends, checked under SpecAsync.                              *)
(***************************************************************************)
\* C15: no update_tools or update_port call of the host waits for room in
\* the command channel: no call is ever suspended with its command unqueued.
C15_HostSendsNeverWait == env.async_send = None

(***************************************************************************)
(* Reported health, checked under SpecHealth.                              *)
(***************************************************************************)
\* The state a successful full heartbeat derives from a health status.
StateFor(health) == IF health = "Healthy" THEN "Healthy" ELSE "Degraded"

\* C16: every POST the runtime sends carries the status the host reported
\* last before the step, and when that POST succeeds the state machine is
\* in the state derived from the same status.
C16_ReportedHealthIsSent ==
    [][ RuntimeStep =>
          \A i \in DOMAIN out' : IsRequest(out'[i], "POST") =>
              /\ out'[i].status = as_api_str(handle_state.health_status)
              /\ sm'.heartbeat_count > sm.heartbeat_count =>
                    sm'.state = StateFor(handle_state.health_status) ]_vars

(***************************************************************************)
(* The end of the loop, checked under SpecDrop.                            *)
(***************************************************************************)
\* C20: run() has returned only if the host called shutdown(): neither
\* failures, retries, commands nor closed channels end the loop.
C20_ExitOnlyOnShutdown == pc = "done" => hist.shutdown_called

(***************************************************************************)
(* Recovery, checked under SpecRecovery.                                   *)
(***************************************************************************)
\* The state machine is in the state its health status stands for, with no
\* consecutive failure counted.
Recovered ==
    /\ sm.state \in {"Healthy", "Degraded"}
    /\ sm.state = StateFor(sm.health_status)
    /\ sm.consecutive_failures = 0

Consecutive(q, first) == \A i \in DOMAIN q : q[i].id = first + i - 1

KeyTable ==
    { <<"registry_url", "RegistryUrl", "MCP_MESH_REGISTRY_URL", "http://localhost:8000">>,
      <<"http_host", "HttpHost", "MCP_MESH_HTTP_HOST", "">>,
      <<"http_port", "HttpPort", "MCP_MESH_HTTP_PORT", "">>,
      <<"namespace", "Namespace", "MCP_MESH_NAMESPACE", "default">>,
      <<"NAMESPACE", "Namespace", "MCP_MESH_NAMESPACE", "default">>,
      <<"agent_name", "AgentName", "MCP_MESH_AGENT_NAME", "">>,
      <<"agent_id", "AgentId", "MCP_MESH_AGENT_ID", "">>,
      <<"health_interval", "HealthInterval", "MCP_MESH_HEALTH_INTERVAL", "5">>,
      <<"distributed_tracing_enabled", "DistributedTracingEnabled",
        "MCP_MESH_DISTRIBUTED_TRACING_ENABLED", "false">>,
      <<"redis_url", "RedisUrl", "REDIS_URL", "redis://localhost:6379">> }

\* What a call should resolve to for the row of a key: "" stands for none.
Resolved(row, c) ==
    LET from_env == IF c.environment.name = row[3] THEN c.environment.value ELSE ""
        from_param == IF c.param = None THEN "" ELSE c.param[1]
    IN IF from_env # "" THEN from_env
       ELSE IF from_param # "" THEN from_param
       ELSE IF row[2] = "HttpHost" THEN c.ip
       ELSE row[4]

\* C22: resolve_config returns the key's non-empty ENV value, else the
\* non-empty param, else the default (the detected address for http_host),
\* and none for a key left without a value; resolve_config_by_name returns
\* the same string for a key it knows, the empty string for none, and the
\* empty string for a name that is no key.
C22_ConfigResolutionOrder ==
    env.config # None =>
        LET c == env.config[1] IN
        IF c.fn = "resolve_config"
        THEN \A row \in KeyTable : row[2] = c.key =>
                 c.option = IF Resolved(row, c) = "" THEN None
                            ELSE Some(Resolved(row, c))
        ELSE IF \E row \in KeyTable : row[1] = c.name
             THEN \A row \in KeyTable : row[1] = c.name =>
                      c.string = Resolved(row, c)
             ELSE c.string = ""

\* A call whose ENV value and param are both set and differ.
C22_Witness ==
    /\ env.config # None
    /\ env.config[1].fn = "resolve_config"
    /\ env.config[1].key = "Namespace"
    /\ env.config[1].environment = [ name |-> "MCP_MESH_NAMESPACE", value |-> "from-env" ]
    /\ env.config[1].param = Some("from-param")
    /\ env.config[1].option = Some("from-env")

(***************************************************************************)
(* The events of one full heartbeat, checked under Spec.                   *)
(***************************************************************************)
IsEvent(e, ty) == e.kind = "event" /\ e.type = ty

\* C23: in the step of the first successful full heartbeat agent_registered
\* is the first event: no dependency, LLM tool or LLM provider event of the
\* same response is emitted before it.
C23_AgentRegisteredFirst ==
    \A i \in DOMAIN out : IsEvent(out[i], "agent_registered") =>
        \A j \in 1..(i - 1) : out[j].kind # "event"

(***************************************************************************)
(* The diff engine, checked under SpecTopo.                                *)
(***************************************************************************)
IsAvailableOrChanged(e) ==
    e.kind = "event" /\ e.type \in {"dependency_available", "dependency_changed"}

\* C24: within one batch the dependency_available and dependency_changed
\* events of one requesting function are emitted in increasing dep_index.
C24_IncreasingDepIndex ==
    \A i, j \in DOMAIN out :
        ( /\ i < j
          /\ IsAvailableOrChanged(out[i])
          /\ IsAvailableOrChanged(out[j])
          /\ out[i].requesting_function = out[j].requesting_function )
        => out[i].dep_index < out[j].dep_index

\* C25: after a response is processed the dependency snapshot has the keys
\* of the response's usable providers and, for every key, the capability,
\* endpoint, function_name and agent_id the response gives it.
C25_SnapshotIsTheNewMap ==
    last_response # None =>
        /\ DOMAIN topology.dependencies = PresentKeys(ResolvedNow)
        /\ \A k \in DOMAIN topology.dependencies :
              /\ topology.dependencies[k].capability = EntryAt(ResolvedNow, k).capability
              /\ topology.dependencies[k].endpoint = EntryAt(ResolvedNow, k).endpoint
              /\ topology.dependencies[k].function_name = EntryAt(ResolvedNow, k).function_name
              /\ topology.dependencies[k].agent_id = EntryAt(ResolvedNow, k).agent_id

(***************************************************************************)
(* The full heartbeat's two outcomes and the state machine's pure          *)
(* operations.                                                             *)
(***************************************************************************)
EventsOf(q) == SelectSeq(q, LAMBDA e : e.kind = "event")

\* C26: a failed full heartbeat adds one to the consecutive failures and to
\* the retry attempt, moves the state to Reconnecting exactly when the
\* failures have reached missed_threshold, emits registration_failed and no
\* other event, and leaves the topology snapshot, the shared handle state
\* and the registered flag as they were.
C26_FailedFullHeartbeat ==
    /\ LET failed == send_full_heartbeat(Bundle, Failure, NoOrders) IN
          /\ failed.sm.consecutive_failures = sm.consecutive_failures + 1
          /\ failed.sm.retry_attempt = sm.retry_attempt + 1
          /\ failed.sm.state =
                IF sm.consecutive_failures + 1 >= sm.missed_threshold
                THEN "Reconnecting" ELSE sm.state
          /\ EventsOf(failed.out) = <<registration_failed>>
          /\ failed.topology = topology
          /\ failed.hs = handle_state
          /\ failed.sm.registered = sm.registered
    /\ (Len(out) = 2 /\ IsRequest(out[1], "POST") /\ IsEvent(out[2], "registration_failed")) =>
          /\ sm.consecutive_failures >= 1
          /\ sm.retry_attempt >= 1
          /\ sm.consecutive_failures >= sm.missed_threshold => sm.state = "Reconnecting"
          /\ sm.state = "Reconnecting" => sm.consecutive_failures >= sm.missed_threshold

C26_Witness ==
    /\ Len(out) = 2
    /\ IsRequest(out[1], "POST")
    /\ IsEvent(out[2], "registration_failed")
    /\ sm.missed_threshold = 2
    /\ sm.consecutive_failures = 2
    /\ sm.retry_attempt = 2
    /\ sm.state = "Reconnecting"
    /\ ~sm.registered

(***************************************************************************)
(* The state machine on its own: one operation called on a state machine   *)
(* in any state and with any counters.  hist.before holds the state        *)
(* machine before the call, out the call and what it returned.             *)
(***************************************************************************)
Machines ==
    [ state                : HeartbeatStates,
      missed_threshold     : 1..MaxThreshold,
      health_status        : HealthStatuses,
      last_heartbeat       : {"none", "fresh", "due"},
      consecutive_failures : 0..MaxFailures,
      retry_attempt        : 0..MaxFailures,
      registered           : BOOLEAN,
      heartbeat_count      : 0..MaxBeats ]

\* State machines that have retried up to MaxAttempt times.
RetryingMachines ==
    { [ HeartbeatStateMachine_new(DefaultMissedThreshold) EXCEPT
          !.state = "Reconnecting",
          !.consecutive_failures = DefaultMissedThreshold,
          !.retry_attempt = n ] : n \in 0..MaxAttempt }

InitMachine ==
    /\ pc = "call"
    /\ sm \in Machines \cup RetryingMachines
    /\ spec = AgentSpec_new
    /\ force_full_heartbeat = FALSE
    /\ topology = [ dependencies |-> EmptyMap, llm_tools |-> EmptyMap,
                    llm_providers |-> EmptyMap ]
    /\ handle_state = [ dependencies |-> EmptyMap, health_status |-> "Healthy",
                        shutdown_requested |-> FALSE, agent_id |-> None ]
    /\ shutdown_ch = 0
    /\ command_ch = <<>>
    /\ out = <<>>
    /\ hist = [ agent_registered |-> 0, shutdown_events |-> 0, deletes |-> 0,
                full_ok |-> FALSE, sig_consumed |-> FALSE, shutdown_called |-> FALSE,
                repeated |-> FALSE, before |-> None,
                event_before_write |-> FALSE ]
    /\ last_response = None
    /\ event_ch = [ queue |-> <<>>, unsent |-> <<>>, resume |-> "top",
                    emitted |-> 0, delivered |-> 0, returned |-> None ]
    /\ env = [ draining |-> TRUE, async_send |-> None, handle_dropped |-> FALSE,
               registry_up |-> FALSE, config |-> None ]

Called(fn, status, after, returned) ==
    /\ pc = "call"
    /\ pc' = "returned"
    /\ sm' = after
    /\ hist' = [ hist EXCEPT !.before = Some(sm) ]
    /\ out' = << [ kind |-> "call", fn |-> fn, status |-> status, returned |-> returned ] >>
    /\ UNCHANGED << spec, force_full_heartbeat, topology, handle_state, shutdown_ch,
                    command_ch, last_response, event_ch, env >>

\* next_action takes &self: the state machine is what it was.
CallNextAction == Called("next_action", None, sm, Some(next_action(sm)))

CallFastHeartbeatResult ==
    \E st \in FastHeartbeatStatuses :
        Called("on_fast_heartbeat_result", Some(st), on_fast_heartbeat_result(sm, st),
               Some(fast_heartbeat_action(st)))

CallFullHeartbeatSuccess ==
    Called("on_full_heartbeat_success", None, on_full_heartbeat_success(sm), None)

CallFullHeartbeatFailure ==
    Called("on_full_heartbeat_failure", None, on_full_heartbeat_failure(sm), None)

CallSetHealthStatus ==
    \E h \in HealthStatuses :
        Called("set_health_status", Some(h), set_health_status(sm, h), None)

NextMachine ==
    \/ CallNextAction
    \/ CallFastHeartbeatResult
    \/ CallFullHeartbeatSuccess
    \/ CallFullHeartbeatFailure
    \/ CallSetHealthStatus

SpecMachine == InitMachine /\ [][NextMachine]_vars

Returned(fn) == pc = "returned" /\ out[1].fn = fn

Before == hist.before[1]

\* C27: a successful full heartbeat, whatever the state and the counters
\* before it, leaves consecutive failures and retry attempt at 0 and
\* registered true, adds one to the heartbeat count, and sets the state from
\* the health status: Healthy for healthy, Degraded for degraded and for
\* unhealthy.
C27_FullHeartbeatSuccess ==
    Returned("on_full_heartbeat_success") =>
        /\ sm.consecutive_failures = 0
        /\ sm.retry_attempt = 0
        /\ sm.registered
        /\ sm.heartbeat_count = Before.heartbeat_count + 1
        /\ sm.state = CASE Before.health_status = "Healthy"   -> "Healthy"
                        [] Before.health_status = "Degraded"  -> "Degraded"
                        [] Before.health_status = "Unhealthy" -> "Degraded"
        /\ sm.health_status = Before.health_status
        /\ sm.missed_threshold = Before.missed_threshold

C27_Witness ==
    /\ Returned("on_full_heartbeat_success")
    /\ Before.state = "Reconnecting"
    /\ Before.health_status = "Unhealthy"
    /\ Before.consecutive_failures = 2
    /\ Before.retry_attempt = 2
    /\ ~Before.registered
    /\ sm.state = "Degraded"

\* C28: NoChanges clears the consecutive failures, adds one to the heartbeat
\* count and returns a wait of the interval, with the state, the registered
\* flag and the retry attempt as they were; TopologyChanged returns SendFull
\* and changes nothing.
C28_NoChangesAndTopologyChanged ==
    Returned("on_fast_heartbeat_result") =>
        /\ out[1].status = Some("NoChanges") =>
              /\ sm.consecutive_failures = 0
              /\ sm.heartbeat_count = Before.heartbeat_count + 1
              /\ out[1].returned = Some([type |-> "Wait", duration |-> "interval"])
              /\ sm.state = Before.state
              /\ sm.registered = Before.registered
              /\ sm.retry_attempt = Before.retry_attempt
        /\ out[1].status = Some("TopologyChanged") =>
              /\ out[1].returned = Some([type |-> "SendFull"])
              /\ sm = Before

C28_Witness ==
    /\ Returned("on_fast_heartbeat_result")
    /\ out[1].status = Some("NoChanges")
    /\ Before.state = "Healthy"
    /\ Before.consecutive_failures = 1
    /\ Before.retry_attempt = 1
    /\ sm.consecutive_failures = 0
    /\ sm.retry_attempt = 1

\* C29: next_action changes nothing and returns SendFull when unregistered,
\* the short wait when registering, SendFast when healthy or degraded and the
\* interval has elapsed and a wait for the rest of the interval when it has
\* not, Retry with the retry attempt and its backoff when reconnecting, and
\* None when shutting down.
C29_NextAction ==
    Returned("next_action") =>
        /\ sm = Before
        /\ out[1].returned = Some(
              CASE sm.state = "Unregistered" -> [type |-> "SendFull"]
                [] sm.state = "Registering"  -> [type |-> "Wait", duration |-> "100ms"]
                [] sm.state \in {"Healthy", "Degraded"} /\ sm.last_heartbeat \in {"none", "due"} ->
                      [type |-> "SendFast"]
                [] sm.state \in {"Healthy", "Degraded"} /\ sm.last_heartbeat = "fresh" ->
                      [type |-> "Wait", duration |-> "remaining"]
                [] sm.state = "Reconnecting" ->
                      [type |-> "Retry", attempt |-> sm.retry_attempt,
                       backoff |-> calculate_backoff(sm)]
                [] sm.state = "ShuttingDown" -> [type |-> "None"])

C29_Witness ==
    /\ Returned("next_action")
    /\ sm.state = "Degraded"
    /\ sm.last_heartbeat = "fresh"
    /\ out[1].returned = Some([type |-> "Wait", duration |-> "remaining"])

BackoffAt(n) == calculate_backoff([sm EXCEPT !.retry_attempt = n])

LlmToolVariants ==
    { Tool1,
      [ Tool1 EXCEPT !.function_name = "t2" ],
      [ Tool1 EXCEPT !.capability = "llm2" ],
      [ Tool1 EXCEPT !.description = "d2" ],
      [ Tool1 EXCEPT !.endpoint = "e2" ],
      [ Tool1 EXCEPT !.agent_id = "a2" ],
      [ Tool1 EXCEPT !.input_schema = Some("obj") ] }

\* LlmProvider1 and the providers that differ from it in one field.
LlmProviderVariants ==
    { LlmProvider1,
      [ LlmProvider1 EXCEPT !.endpoint = "e2" ],
      [ LlmProvider1 EXCEPT !.function_name = "p2" ],
      [ LlmProvider1 EXCEPT !.agent_id = "a2" ],
      [ LlmProvider1 EXCEPT !.model = Some("m") ] }

\* The tool lists of up to MaxTools tools of which at most one is not Tool1.
LlmToolLists ==
    { q \in SeqsUpTo(LlmToolVariants, MaxTools) :
          Cardinality({ i \in DOMAIN q : q[i] # Tool1 }) <= 1 }

LlmResponses ==
    { HeartbeatResponse(EmptyResolved, "f" :> q, EmptyMap) : q \in LlmToolLists }
    \cup { HeartbeatResponse(EmptyResolved, "f" :> <<Tool1>> @@ "h" :> <<Tool2>>, EmptyMap) }
    \cup { HeartbeatResponse(EmptyResolved, EmptyMap, "f" :> p) : p \in LlmProviderVariants }
    \cup { HeartbeatResponse(EmptyResolved, EmptyMap, "f" :> LlmProvider1 @@ "h" :> LlmProvider2) }

ProcessLlmResponse ==
    /\ last_response = None
    /\ \E r \in LlmResponses : \E ord \in ResponseOrders(Bundle, r) :
          Commit(Observe(Bundle, process_heartbeat_response(Bundle, r, ord), r))
    /\ UNCHANGED <<pc, shutdown_ch, command_ch, event_ch, env>>

NextLlm == ProcessLlmResponse \/ BatchObserved

SpecLlm == InitTopo /\ [][NextLlm]_vars

ToolsBefore == hist.before[1].topology.llm_tools

\* No prior list, or one of another length, or one that differs in a field
\* of an element.
ToolListDiffers(fid, new) ==
    \/ fid \notin DOMAIN ToolsBefore
    \/ Len(ToolsBefore[fid]) # Len(new)
    \/ \E i \in 1..Len(new) :
          \/ ToolsBefore[fid][i].function_name # new[i].function_name
          \/ ToolsBefore[fid][i].capability # new[i].capability
          \/ ToolsBefore[fid][i].description # new[i].description
          \/ ToolsBefore[fid][i].endpoint # new[i].endpoint
          \/ ToolsBefore[fid][i].agent_id # new[i].agent_id
          \/ ToolsBefore[fid][i].input_schema # new[i].input_schema

ToolEvents(fid) ==
    SelectSeq(out, LAMBDA e : IsEvent(e, "llm_tools_updated") /\ e.function_id = fid)

\* C31: for each function_id of a response llm_tools_updated is emitted, once
\* and with the new list, exactly when there was no prior list or the new
\* list differs from it in length or in a field of an element; the snapshot
\* entry then is the new list, and otherwise is what it was.
C31_LlmToolsUpdatedOnDifference ==
    last_response # None =>
        \A fid \in DOMAIN last_response[1].llm_tools :
            LET new == tool_infos(last_response[1].llm_tools[fid]) IN
            IF ToolListDiffers(fid, new)
            THEN /\ ToolEvents(fid) = << llm_tools_updated(fid, new) >>
                 /\ topology.llm_tools[fid] = new
            ELSE /\ ToolEvents(fid) = <<>>
                 /\ topology.llm_tools[fid] = ToolsBefore[fid]

\* A list of the same length that differs in one tool's description was
\* reported.
C31_Witness ==
    /\ last_response # None
    /\ "f" \in DOMAIN last_response[1].llm_tools
    /\ "f" \in DOMAIN ToolsBefore
    /\ Len(ToolsBefore["f"]) = 2
    /\ Len(topology.llm_tools["f"]) = 2
    /\ ToolsBefore["f"][1] = topology.llm_tools["f"][1]
    /\ ToolsBefore["f"][2].description # topology.llm_tools["f"][2].description
    /\ ToolEvents("f") # <<>>

ProvidersBefore == hist.before[1].topology.llm_providers

ProviderEvents(fid) ==
    SelectSeq(out, LAMBDA e : IsEvent(e, "llm_provider_available")
                              /\ e.provider_info.function_id = fid)

\* C32: for each function_id of a response llm_provider_available is emitted
\* exactly when there was no prior provider record or the new record's
\* endpoint or function_name differs from the prior one; a change in agent_id
\* or model alone emits nothing and leaves the stored record as it was.
C32_LlmProviderAvailableOnDifference ==
    last_response # None =>
        \A fid \in DOMAIN last_response[1].llm_providers :
            LET p == last_response[1].llm_providers[fid] IN
            IF \/ fid \notin DOMAIN ProvidersBefore
               \/ ProvidersBefore[fid].endpoint # p.endpoint
               \/ ProvidersBefore[fid].function_name # p.function_name
            THEN /\ ProviderEvents(fid) = << llm_provider_available(LlmProviderInfo(fid, p)) >>
                 /\ topology.llm_providers[fid] = TrackedProvider(fid, p)
            ELSE /\ ProviderEvents(fid) = <<>>
                 /\ topology.llm_providers[fid] = ProvidersBefore[fid]

\* A provider that differs from the stored one in agent_id alone was
\* reported.
C32_Witness ==
    /\ last_response # None
    /\ "f" \in DOMAIN last_response[1].llm_providers
    /\ "f" \in DOMAIN ProvidersBefore
    /\ ProvidersBefore["f"].agent_id # last_response[1].llm_providers["f"].agent_id
    /\ ProvidersBefore["f"].endpoint = last_response[1].llm_providers["f"].endpoint
    /\ ProvidersBefore["f"].function_name = last_response[1].llm_providers["f"].function_name
    /\ out = <<>>
    /\ topology.llm_providers["f"] = ProvidersBefore["f"]

(***************************************************************************)
(* The runtime loop after a shutdown signal, and between its requests.     *)
(***************************************************************************)
\* C33: once the runtime has consumed a shutdown signal the only registry
\* request it sends is the DELETE: no step that has consumed the signal, or
\* that follows one, sends a HEAD or a POST.
C33_NoHeartbeatAfterSignal ==
    hist.sig_consumed =>
        \A i \in DOMAIN out : out[i].kind = "request" => out[i].method = "DELETE"

\* C34: ShuttingDown is absorbing: a call of on_fast_heartbeat_result,
\* on_full_heartbeat_success, on_full_heartbeat_failure, set_health_status or
\* next_action on a state machine that is shutting down leaves it shutting
\* down, with next_action returning None.
C34_ShuttingDownIsAbsorbing ==
    (pc = "returned" /\ Before.state = "ShuttingDown") =>
        /\ sm.state = "ShuttingDown"
        /\ next_action(sm).type = "None"

\* The last step of the loop sent a heartbeat that failed.
HeartbeatFailed ==
    \E i \in DOMAIN out :
        \/ IsRequest(out[i], "HEAD") /\ out[i].result \in FastErrors
        \/ IsEvent(out[i], "registration_failed")

\* C35: after a failed heartbeat the runtime sleeps before its next
\* request: the pass through the loop that follows a failed HEAD or POST,
\* with no command and no shutdown signal pending, sends no heartbeat.
C35_SleepAfterFailedHeartbeat ==
    [][ ( /\ pc = "top"
          /\ HeartbeatFailed
          /\ ~force_full_heartbeat
          /\ command_ch = <<>>
          /\ shutdown_ch = 0 )
        => ~(SendFull \/ SendFast) ]_vars

(***************************************************************************)
(* The shared handle state and the topology snapshot.                      *)
(***************************************************************************)
SnapshotEntries == { topology.dependencies[k] : k \in DOMAIN topology.dependencies }

\* C36: the shared handle's flat dependency view agrees with the topology
\* snapshot: its keys are the capabilities of the snapshot's entries, and
\* each maps to the endpoint of a snapshot entry of that capability.
C36_FlatViewMatchesSnapshot ==
    /\ DOMAIN handle_state.dependencies = { e.capability : e \in SnapshotEntries }
    /\ \A c \in DOMAIN handle_state.dependencies :
          \E e \in SnapshotEntries :
              e.capability = c /\ e.endpoint = handle_state.dependencies[c]

\* C37: in the step of a successful full heartbeat the runtime writes the
\* shared handle state (the agent id, then the flat dependency view) before
\* it emits the first event of the response: at the end of the step the
\* agent id is set when agent_registered was emitted, and every capability
\* reported by a dependency_available event is a key of the flat view.
C37_SharedWritesPrecedeEvents ==
    /\ ~hist.event_before_write
    /\ \A i \in DOMAIN out :
          /\ IsEvent(out[i], "agent_registered") => handle_state.agent_id # None
          /\ IsEvent(out[i], "dependency_available") =>
                /\ out[i].capability \in DOMAIN handle_state.dependencies
                /\ handle_state.agent_id # None

\* The first successful full heartbeat reported a dependency.
C37_Witness ==
    /\ \E i \in DOMAIN out : IsEvent(out[i], "agent_registered")
    /\ \E i \in DOMAIN out :
          /\ IsEvent(out[i], "dependency_available")
          /\ handle_state.dependencies[out[i].capability] = out[i].endpoint
    /\ handle_state.agent_id = Some("a")

(***************************************************************************)
(* Commands and the requests that follow them.                             *)
(***************************************************************************)
\* C38: once UpdateTools(T) has been processed, the full heartbeat request
\* that follows carries the projection of T, for every T: also for one that
\* differs from the current tools in a description alone.
C38_RequestCarriesUpdatedTools ==
    \A T \in ToolUpdates :
        LET s1 == handle_command(Bundle, UpdateTools(T))
            s2 == send_full_heartbeat(s1, Failure, NoOrders)
        IN /\ IsRequest(s2.out[1], "POST")
           /\ s2.out[1].tools = tool_registrations(T)

(***************************************************************************)
(* Invariants of the state machine as the runtime drives it.               *)
(***************************************************************************)
\* C39: while the state is Unregistered, Healthy or Degraded the consecutive
\* failures are below missed_threshold, while it is Reconnecting they have
\* reached it, and while it is Healthy or Degraded the agent is registered.
C39_StateAndFailureCounter ==
    /\ sm.missed_threshold >= 1
    /\ sm.state \in {"Unregistered", "Healthy", "Degraded"} =>
          sm.consecutive_failures < sm.missed_threshold
    /\ sm.state = "Reconnecting" => sm.consecutive_failures >= sm.missed_threshold
    /\ sm.state \in {"Healthy", "Degraded"} => sm.registered

\* A registered agent has lost the registry after missed_threshold failures.
C39_Witness ==
    /\ sm.state = "Reconnecting"
    /\ sm.registered
    /\ sm.missed_threshold = 2
    /\ sm.consecutive_failures = 2

\* C40: the runtime sends a HEAD only while the state is Healthy or
\* Degraded: wherever the loop, having polled its channels, dispatches to
\* SendFast, a full heartbeat has succeeded, the agent is registered (no
\* AgentUnknown since), and the state is not Reconnecting.
C40_FastHeartbeatOnlyWhenRegistered ==
    (pc = "top" /\ Dispatch(Polled, "SendFast")) =>
        /\ sm.state \in {"Healthy", "Degraded"}
        /\ sm.registered
        /\ hist.full_ok

\* The registry answered a HEAD with AgentUnknown, the runtime registered
\* again in the same step, and a HEAD can follow.
C40_Witness ==
    /\ Len(out) >= 2
    /\ IsRequest(out[1], "HEAD")
    /\ out[1].result = "AgentUnknown"
    /\ IsRequest(out[2], "POST")
    /\ sm.state = "Healthy"
    /\ sm.last_heartbeat = "due"
    /\ ENABLED SendFast

====
